---- MODULE Spec2Model ----
(***************************************************************************)
(* Model of the Glow Wizard MVP backend: the field validator and answer    *)
(* normaliser (profile-processor.js), the photo URL validator and metadata *)
(* estimator (photo-analyzer.js), the request schema check                 *)
(* (data-validator.js), the recommendation engine                          *)
(* (recommendation-engine.js), the auth middleware (auth-middleware.js)    *)
(* and the route POST /apirecommendations (server.js).                     *)
(***************************************************************************)
EXTENDS Integers, Sequences, FiniteSets, TLC

VARIABLES
    fn,     \* the exported function a direct call is made to ("" when none)
    arg,    \* the argument of the call
    ret,    \* what the call returned
    done    \* whether the call has returned

pureVars == <<fn, arg, ret, done>>

VARIABLES
    fpc,              \* where an asynchronous photo call stands
    idx,              \* formatPhotosForAI: the photo of the for loop (1-based)
    probe,            \* the HEAD request in flight, if any
    requests,         \* the HEAD requests issued so far, by photo position
    outcomes,         \* how the requests that have settled ended, in order
    formattedPhotos,  \* formatPhotosForAI: formattedPhotos
    processingErrors  \* formatPhotosForAI: processingErrors

fmtVars == <<fpc, idx, probe, requests, outcomes, formattedPhotos, processingErrors>>

VARIABLES
    req,        \* the HTTP request: its Authorization header and parsed body
    pc,         \* the stage of the route the request is at
    verdict,    \* what the identity verifier said of the bearer token
    user,       \* req.user
    responses,  \* the responses sent for the request, in order
    ran,        \* the stages and calls that have run for the request
    locals,     \* the handler's processedProfile and validatedPhotos
    gen,        \* the promise of the generateRecommendations call
    llm         \* the LLM API: how it will answer, and the calls made to it

httpVars == <<req, pc, verdict, user, responses, ran, locals, gen, llm>>

vars == <<pureVars, fmtVars, httpVars>>


(***************************************************************************)
(* JavaScript values.  A value is a record [t, v]: t is the kind of value, *)
(* v its payload (0 where the kind has none).  A string is the sequence of *)
(* its characters, an array the sequence of its elements, an object a      *)
(* function from its own keys to values, a number an integer or, when it   *)
(* is none, its tenths.                                                    *)
(***************************************************************************)
Undefined == [t |-> "undefined", v |-> 0]
Null == [t |-> "null", v |-> 0]
NaN == [t |-> "nan", v |-> 0]
Str(s) == [t |-> "string", v |-> s]
Num(n) == [t |-> "number", v |-> n]
\* a number that is no integer, by its tenths
Dec(tenths) == [t |-> "decimal", v |-> tenths]
\* ten times a number
Tenths(x) == IF x.t = "decimal" THEN x.v ELSE 10 * x.v
Arr(a) == [t |-> "array", v |-> a]
Obj(f) == [t |-> "object", v |-> f]

\* typeof x
Typeof(x) ==
    CASE x.t = "undefined" -> "undefined"
      [] x.t = "null" -> "object"
      [] x.t = "nan" -> "number"
      [] x.t = "number" -> "number"
      [] x.t = "decimal" -> "number"
      [] x.t = "pow10" -> "number"
      [] x.t = "string" -> "string"
      [] x.t = "array" -> "object"
      [] x.t = "object" -> "object"
      [] OTHER -> "object"

\* Array.isArray(x)
IsArray(x) == x.t = "array"

\* the truth value of x in a condition ( !x is ~Truthy(x) )
Truthy(x) ==
    CASE x.t = "undefined" -> FALSE
      [] x.t = "null" -> FALSE
      [] x.t = "nan" -> FALSE
      [] x.t = "number" -> x.v # 0
      [] x.t = "string" -> x.v # <<>>
      [] OTHER -> TRUE

\* obj[key]: undefined for a key the object does not own (an array owns no
\* named key)
Get(obj, key) ==
    IF obj.t = "object" /\ key \in DOMAIN obj.v THEN obj.v[key] ELSE Undefined

\* key in obj
HasKey(obj, key) == obj.t = "object" /\ key \in DOMAIN obj.v

WhiteSpace == {" ", "\t"}

RECURSIVE TrimStart(_)
TrimStart(s) ==
    IF s # <<>> /\ Head(s) \in WhiteSpace THEN TrimStart(Tail(s)) ELSE s

RECURSIVE TrimEnd(_)
TrimEnd(s) ==
    IF s # <<>> /\ s[Len(s)] \in WhiteSpace
    THEN TrimEnd(SubSeq(s, 1, Len(s) - 1))
    ELSE s

\* String.prototype.trim
Trim(s) == TrimEnd(TrimStart(s))

\* allowed.includes(x)
Includes(a, x) == \E i \in 1..Len(a) : a[i] = x

(***************************************************************************)
(* The parts of the state a call leaves alone.                             *)
(***************************************************************************)
NoProbe == [state |-> "none"]

\* no asynchronous photo call is under way
FmtIdle ==
    /\ fpc = "idle"
    /\ idx = 0
    /\ probe = NoProbe
    /\ requests = <<>>
    /\ outcomes = <<>>
    /\ formattedPhotos = <<>>
    /\ processingErrors = <<>>

NoRequest == [authorization |-> Undefined, body |-> Undefined]
NoLocals == [set |-> FALSE]
NoGen == [state |-> "none"]
NoLlm == [plan |-> [kind |-> "none"], calls |-> 0]

\* no request is being served and no recommendation call is under way
HttpIdle ==
    /\ req = NoRequest
    /\ pc = "idle"
    /\ verdict = "none"
    /\ user = Undefined
    /\ responses = <<>>
    /\ ran = {}
    /\ locals = NoLocals
    /\ gen = NoGen
    /\ llm = NoLlm

notPure == <<fmtVars, httpVars>>
notFmt == <<httpVars>>

DigitChars == <<"0", "1", "2", "3", "4", "5", "6", "7", "8", "9">>
IsDigit(c) == \E d \in 1..10 : DigitChars[d] = c
DigitValue(c) == (CHOOSE d \in 1..10 : DigitChars[d] = c) - 1

\* the decimal digits of a non-negative integer, as a server writes them
RECURSIVE Digits(_)
Digits(n) == IF n < 10 THEN <<DigitChars[n + 1]>>
             ELSE Digits(n \div 10) \o <<DigitChars[(n % 10) + 1]>>

RECURSIVE ParseDigits(_, _, _)
ParseDigits(s, acc, any) ==
    IF s # <<>> /\ IsDigit(Head(s))
    THEN ParseDigits(Tail(s), acc * 10 + DigitValue(Head(s)), TRUE)
    ELSE IF any THEN Num(acc) ELSE NaN

\* parseInt(s): leading blanks skipped, then the longest run of digits
ParseInt(s) == ParseDigits(TrimStart(s), 0, FALSE)

(***************************************************************************)
(* profile-processor.js: validateProfileData                               *)
(***************************************************************************)
SkinTypes ==
    << Str(<<"d","r","y">>), Str(<<"o","i","l","y">>),
       Str(<<"c","o","m","b","i","n","a","t","i","o","n">>),
       Str(<<"n","o","r","m","a","l">>),
       Str(<<"s","e","n","s","i","t","i","v","e">>) >>

Concerns ==
    << Str(<<"a","c","n","e">>), Str(<<"w","r","i","n","k","l","e","s">>),
       Str(<<"r","e","d","n","e","s","s">>), Str(<<"d","r","y","n","e","s","s">>),
       Str(<<"d","a","r","k"," ","s","p","o","t","s">>),
       Str(<<"s","e","n","s","i","t","i","v","i","t","y">>) >>

requiredFields ==
    << [key |-> "name", type |-> "string", minLength |-> 1],
       [key |-> "age", type |-> "number", min |-> 13, max |-> 120],
       [key |-> "skinType", type |-> "string", allowed |-> SkinTypes],
       [key |-> "concerns", type |-> "object", isArray |-> TRUE, allowed |-> Concerns],
       [key |-> "location", type |-> "string", minLength |-> 2] >>

\* one entry of the errors list: the kind of message, the field it names and
\* the values the message interpolates
Err(kind, key, detail) == [kind |-> kind, key |-> key, detail |-> detail]

\* line 49: the field counts as missing
IsMissingValue(value) ==
    \/ value = Undefined
    \/ value = Null
    \/ (Typeof(value) = "string" /\ Trim(value.v) = <<>>)

\* lines 54-56
StringTypeErrors(field, value) ==
    IF field.type = "string" /\ Typeof(value) # "string"
    THEN <<Err("string", field.key, <<>>)>>
    ELSE <<>>

\* a range check whose bounds are exclusive
NumberErrors_Exclusive(field, value) ==
    IF field.type = "number"
    THEN IF Typeof(value) # "number" \/ value.t = "nan"
         THEN <<Err("number", field.key, <<>>)>>
         ELSE (IF "min" \in DOMAIN field /\ Tenths(value) <= 10 * field.min
               THEN <<Err("min", field.key, <<Num(field.min)>>)>> ELSE <<>>)
              \o
              (IF "max" \in DOMAIN field /\ Tenths(value) >= 10 * field.max
               THEN <<Err("max", field.key, <<Num(field.max)>>)>> ELSE <<>>)
    ELSE <<>>

\* a range check that runs whatever the type check said, on the number the
\* comparison coerces the value to
NumberErrors_Independent(field, value) ==
    IF field.type = "number"
    THEN LET n == IF value.t = "string" THEN ParseInt(value.v) ELSE value
             comparable == n.t \in {"number", "decimal"}
         IN  (IF Typeof(value) # "number" \/ value.t = "nan"
              THEN <<Err("number", field.key, <<>>)>> ELSE <<>>)
             \o
             (IF "min" \in DOMAIN field /\ comparable /\ Tenths(n) < 10 * field.min
              THEN <<Err("min", field.key, <<Num(field.min)>>)>> ELSE <<>>)
             \o
             (IF "max" \in DOMAIN field /\ comparable /\ Tenths(n) > 10 * field.max
              THEN <<Err("max", field.key, <<Num(field.max)>>)>> ELSE <<>>)
    ELSE <<>>

\* lines 57-68
NumberErrors(field, value) ==
    IF field.type = "number"
    THEN IF Typeof(value) # "number" \/ value.t = "nan"
         THEN <<Err("number", field.key, <<>>)>>
         ELSE (IF "min" \in DOMAIN field /\ Tenths(value) < 10 * field.min
               THEN <<Err("min", field.key, <<Num(field.min)>>)>> ELSE <<>>)
              \o
              (IF "max" \in DOMAIN field /\ Tenths(value) > 10 * field.max
               THEN <<Err("max", field.key, <<Num(field.max)>>)>> ELSE <<>>)
    ELSE <<>>

\* lines 69-78
ArrayErrors(field, value) ==
    IF field.type = "object" /\ "isArray" \in DOMAIN field /\ field.isArray
    THEN IF ~IsArray(value)
         THEN <<Err("array", field.key, <<>>)>>
         ELSE IF "allowed" \in DOMAIN field
              THEN LET NotAllowed(v) == ~Includes(field.allowed, v)
                       invalid == SelectSeq(value.v, NotAllowed)
                   IN  IF Len(invalid) > 0
                       THEN <<Err("invalidValues", field.key, invalid)>>
                       ELSE <<>>
              ELSE <<>>
    ELSE <<>>

\* lines 79-81
AllowedErrors(field, value) ==
    IF "allowed" \in DOMAIN field /\ field.type = "string"
       /\ ~Includes(field.allowed, value)
    THEN <<Err("oneOf", field.key, field.allowed)>>
    ELSE <<>>

\* lines 82-84
MinLengthErrors(field, value) ==
    IF "minLength" \in DOMAIN field /\ field.minLength # 0
       /\ Typeof(value) = "string" /\ Len(value.v) < field.minLength
    THEN <<Err("minLength", field.key, <<Num(field.minLength)>>)>>
    ELSE <<>>

\* CheckField without the `continue` of line 51
CheckField_NoContinue(field, value) ==
    (IF IsMissingValue(value) THEN <<Err("missing", field.key, <<>>)>> ELSE <<>>)
    \o StringTypeErrors(field, value) \o NumberErrors(field, value)
    \o ArrayErrors(field, value) \o AllowedErrors(field, value)
    \o MinLengthErrors(field, value)

\* the body of the loop over requiredFields, for one field: what it pushes
CheckField(field, value) ==
    IF IsMissingValue(value)
    THEN <<Err("missing", field.key, <<>>)>>
    ELSE StringTypeErrors(field, value) \o NumberErrors(field, value)
         \o ArrayErrors(field, value) \o AllowedErrors(field, value)
         \o MinLengthErrors(field, value)

\* CheckFields that stops at the first field with an error
RECURSIVE CheckFields_FirstOnly(_, _)
CheckFields_FirstOnly(fields, profileData) ==
    IF fields = <<>> THEN <<>>
    ELSE LET e == CheckField(Head(fields), Get(profileData, Head(fields).key))
         IN  IF e # <<>> THEN e ELSE CheckFields_FirstOnly(Tail(fields), profileData)

RECURSIVE CheckFields(_, _)
CheckFields(fields, profileData) ==
    IF fields = <<>> THEN <<>>
    ELSE CheckField(Head(fields), Get(profileData, Head(fields).key))
         \o CheckFields(Tail(fields), profileData)

TopLevelError == Err("notObject", "", <<>>)

\* what validateProfileData returns: true, or {valid:false, errors}
ReturnsTrue == [ret |-> "true", valid |-> TRUE, errors |-> <<>>]
Invalid(errors) == [ret |-> "object", valid |-> FALSE, errors |-> errors]

validateProfileData(profileData) ==
    IF ~Truthy(profileData) \/ Typeof(profileData) # "object"
    THEN Invalid(<<TopLevelError>>)
    ELSE LET errors == CheckFields(requiredFields, profileData)
         IN  IF Len(errors) > 0 THEN Invalid(errors) ELSE ReturnsTrue

(***************************************************************************)
(* profile-processor.js: processQuestionnaireAnswers.                      *)
(***************************************************************************)
Chars_null == <<"n", "u", "l", "l">>
Chars_undefined == <<"u", "n", "d", "e", "f", "i", "n", "e", "d">>
Chars_NaN == <<"N", "a", "N">>
Chars_object == <<"[", "o", "b", "j", "e", "c", "t", " ", "O", "b", "j", "e", "c", "t", "]">>

\* the number 10^k, for a k whose power is beyond the integers of the model
Pow10(k) == [t |-> "pow10", v |-> k]

\* Number.prototype.toString of 10^k: plain digits below 10^21, exponent
\* notation from there on
Pow10ToStr(k) ==
    IF k < 21 THEN <<"1">> \o [i \in 1..k |-> "0"]
    ELSE <<"1", "e", "+">> \o Digits(k)

\* String(n) for an integer
IntToStr(n) == IF n < 0 THEN <<"-">> \o Digits(-n) ELSE Digits(n)

\* String(x) of a value that is no array
ScalarToStr(x) ==
    CASE x.t = "string" -> x.v
      [] x.t = "number" -> IntToStr(x.v)
      [] x.t = "decimal" ->
            (IF x.v < 0 THEN <<"-">> ELSE <<>>)
            \o Digits((IF x.v < 0 THEN -x.v ELSE x.v) \div 10) \o <<".">>
            \o Digits((IF x.v < 0 THEN -x.v ELSE x.v) % 10)
      [] x.t = "pow10" -> Pow10ToStr(x.v)
      [] x.t = "nan" -> Chars_NaN
      [] x.t = "null" -> Chars_null
      [] x.t = "undefined" -> Chars_undefined
      [] OTHER -> Chars_object

\* Array.prototype.join(","): null and undefined elements give ""
RECURSIVE JoinArr(_)
JoinArr(a) ==
    IF a = <<>> THEN <<>>
    ELSE (IF Head(a).t \in {"null", "undefined"} THEN <<>>
          ELSE IF Head(a).t = "array" THEN JoinArr(Head(a).v)
          ELSE ScalarToStr(Head(a)))
         \o (IF Len(a) > 1 THEN <<",">> \o JoinArr(Tail(a)) ELSE <<>>)

\* String(x)
ToStr(x) == IF x.t = "array" THEN JoinArr(x.v) ELSE ScalarToStr(x)

\* the sign a numeric string starts with, and the rest
SignOf(s) == IF s # <<>> /\ Head(s) = "-" THEN -1 ELSE 1
Unsigned(s) == IF s # <<>> /\ Head(s) \in {"-", "+"} THEN Tail(s) ELSE s

\* the longest run of digits a string starts with
RECURSIVE DigitRun(_)
DigitRun(s) ==
    IF s # <<>> /\ IsDigit(Head(s)) THEN <<Head(s)>> \o DigitRun(Tail(s)) ELSE <<>>

\* parseInt(x, 10): the digits after blanks and a sign, up to the first
\* character that is none (so the "e+21" of "1e+21" is not read).  A run of
\* more than 9 digits is taken to be a 1 followed by zeros.
JsParseInt(x) ==
    LET s == TrimStart(ToStr(x))
        run == DigitRun(Unsigned(s))
        n == ParseDigits(run, 0, FALSE)
    IN  IF Len(run) > 9 THEN Pow10(Len(run) - 1)
        ELSE IF n.t = "nan" THEN NaN ELSE Num(SignOf(s) * n.v)

\* the exponent part "e+dd" or "edd" a string starts with, -1 when none
ExponentOf(rest) ==
    LET digits == IF Len(rest) >= 2 /\ rest[2] = "+"
                  THEN DigitRun(SubSeq(rest, 3, Len(rest)))
                  ELSE DigitRun(Tail(rest))
    IN  IF rest # <<>> /\ Head(rest) \in {"e", "E"} /\ digits # <<>>
        THEN ParseDigits(digits, 0, FALSE).v
        ELSE -1

\* parseFloat(x), for decimals of at most one fraction digit; an exponent
\* part is read, for the mantissa 1
JsParseFloat(x) ==
    LET s == TrimStart(ToStr(x))
        u == Unsigned(s)
        whole == DigitRun(u)
        rest == SubSeq(u, Len(whole) + 1, Len(u))
        frac == IF rest # <<>> /\ Head(rest) = "." THEN DigitRun(Tail(rest)) ELSE <<>>
        w == IF whole = <<>> \/ Len(whole) > 9 THEN 0 ELSE ParseDigits(whole, 0, FALSE).v
        f == IF frac = <<>> THEN 0 ELSE DigitValue(Head(frac))
    IN  IF Len(whole) > 9 THEN Pow10(Len(whole) - 1)
        ELSE IF whole = <<"1">> /\ ExponentOf(rest) > 9 THEN Pow10(ExponentOf(rest))
        ELSE IF whole = <<>> /\ frac = <<>> THEN NaN
        ELSE IF f = 0 THEN Num(SignOf(s) * w)
        ELSE Dec(SignOf(s) * (w * 10 + f))

LowerChar(c) ==
    CASE c = "H" -> "h" [] c = "I" -> "i" [] c = "G" -> "g" [] c = "L" -> "l"
      [] c = "O" -> "o" [] c = "W" -> "w" [] c = "N" -> "n" [] c = "A" -> "a"
      [] c = "D" -> "d" [] c = "R" -> "r" [] c = "Y" -> "y" [] c = "E" -> "e"
      [] c = "M" -> "m" [] c = "U" -> "u" [] c = "B" -> "b" [] c = "J" -> "j"
      [] c = "C" -> "c" [] c = "T" -> "t" [] c = "S" -> "s" [] c = "P" -> "p"
      [] OTHER -> c

\* x.toString().toLowerCase(); Object.prototype.toString gives "[object Object]"
ToLowerStr(x) == LET s == ToStr(x) IN Str([i \in 1..Len(s) |-> LowerChar(s[i])])

Returned(value) == [threw |-> FALSE, value |-> value]
Thrown(error) == [threw |-> TRUE, error |-> error]

AnswerKeys == <<"hydration", "sunExposure", "sleepHours", "stressLevel">>

\* lines 109-123: what processed[key] is set to (null for a number that did
\* not parse)
Coerce(key, value) ==
    LET n == IF key = "sleepHours" THEN JsParseFloat(value) ELSE JsParseInt(value)
    IN  IF key = "sunExposure" THEN ToLowerStr(value)
        ELSE IF n.t = "nan" THEN Null ELSE n

\* returns the processed answers or {error}, or throws the TypeError of
\* calling toString on a sunExposure that is null or undefined
processQuestionnaireAnswers(answers) ==
    IF ~Truthy(answers) \/ Typeof(answers) # "object"
    THEN Returned(Obj([error |-> Str(<<"Answers must be an object.">>)]))
    ELSE IF HasKey(answers, "sunExposure")
            /\ answers.v["sunExposure"].t \in {"null", "undefined"}
    THEN Thrown([name |-> "TypeError", code |-> "NONE", hasResponse |-> FALSE])
    ELSE LET present == {AnswerKeys[i] : i \in 1..Len(AnswerKeys)}
                        \cap (IF answers.t = "object" THEN DOMAIN answers.v ELSE {})
             kept == {k \in present : Coerce(k, answers.v[k]).t \notin {"null", "undefined"}}
         IN  Returned(Obj([k \in kept |-> Coerce(k, answers.v[k])]))

(***************************************************************************)
(* photo-analyzer.js: validatePhotoUrls, detectImageFormat.                *)
(* A URL string is the sequence of its lexical chunks: scheme, host, path  *)
(* segments, extension, surrounding blanks.                                *)
(***************************************************************************)
MaxPhotos == 5

\* String.prototype.toLowerCase, chunk by chunk
LowerChunk(c) ==
    CASE c = ".JPG" -> ".jpg"
      [] c = ".JPEG" -> ".jpeg"
      [] c = ".PNG" -> ".png"
      [] c = ".WEBP" -> ".webp"
      [] c = ".GIF" -> ".gif"
      [] c = "HTTP://" -> "http://"
      [] c = "HTTPS://" -> "https://"
      [] OTHER -> c

ToLowerCase(s) == [i \in 1..Len(s) |-> LowerChunk(s[i])]

\* String.prototype.includes, for a one-chunk needle
StrIncludes(s, needle) == \E i \in 1..Len(s) : s[i] = needle

HostsWithTld == {"cdn.example.com", "img.example.org"}

\* validator.isURL(trimmedUrl, urlOptions) with protocols http/https,
\* require_protocol, require_host, require_tld, no protocol-relative URLs
IsURL(s) ==
    /\ Len(s) >= 2
    /\ s[1] \in {"http://", "https://"}
    /\ s[2] \in HostsWithTld
    /\ \A i \in 1..Len(s) : s[i] \notin WhiteSpace

supportedFormats == <<".jpg", ".jpeg", ".png", ".webp">>

detectImageFormat(url) ==
    LET urlLowerCase == ToLowerCase(url) IN
    IF StrIncludes(urlLowerCase, ".png") THEN "PNG"
    ELSE IF StrIncludes(urlLowerCase, ".webp") THEN "WebP"
    ELSE IF StrIncludes(urlLowerCase, ".jpeg") THEN "JPEG"
    ELSE IF StrIncludes(urlLowerCase, ".jpg") THEN "JPEG"
    ELSE "UNKNOWN"

UrlError(index, error) == [index |-> index, error |-> error, photoNo |-> index + 1]

\* the callback of photoUrls.forEach for one element: the entry it pushes,
\* and the list it pushes it to
ValidateOne(url, index) ==
    IF Typeof(url) # "string" \/ Len(Trim(url.v)) = 0
    THEN [ok |-> FALSE, entry |-> UrlError(index, "INVALID_URL_FORMAT")]
    ELSE LET trimmedUrl == Trim(url.v) IN
         IF ~IsURL(trimmedUrl)
         THEN [ok |-> FALSE, entry |-> UrlError(index, "MALFORMED_URL")]
         ELSE LET urlLowerCase == ToLowerCase(trimmedUrl)
                  hasValidExtension ==
                      \E f \in 1..Len(supportedFormats) :
                          StrIncludes(urlLowerCase, supportedFormats[f])
              IN  IF ~hasValidExtension
                  THEN [ok |-> FALSE, entry |-> UrlError(index, "UNSUPPORTED_FORMAT")]
                  ELSE [ok |-> TRUE,
                        entry |-> [originalUrl |-> trimmedUrl, index |-> index,
                                   format |-> detectImageFormat(trimmedUrl)]]

\* a forEach that gives up at the first element that fails
RECURSIVE ValidateEach_StopAtFirstError(_, _)
ValidateEach_StopAtFirstError(photoUrls, index) ==
    IF index >= Len(photoUrls)
    THEN [validatedUrls |-> <<>>, errors |-> <<>>]
    ELSE LET one == ValidateOne(photoUrls[index + 1], index) IN
         IF ~one.ok THEN [validatedUrls |-> <<>>, errors |-> <<one.entry>>]
         ELSE LET rest == ValidateEach_StopAtFirstError(photoUrls, index + 1)
              IN  [validatedUrls |-> <<one.entry>> \o rest.validatedUrls,
                   errors |-> rest.errors]

\* photoUrls.forEach((url, index) => ...), from element `index` (0-based) on
RECURSIVE ValidateEach(_, _)
ValidateEach(photoUrls, index) ==
    IF index >= Len(photoUrls)
    THEN [validatedUrls |-> <<>>, errors |-> <<>>]
    ELSE LET one == ValidateOne(photoUrls[index + 1], index)
             rest == ValidateEach(photoUrls, index + 1)
         IN  IF one.ok
             THEN [validatedUrls |-> <<one.entry>> \o rest.validatedUrls,
                   errors |-> rest.errors]
             ELSE [validatedUrls |-> rest.validatedUrls,
                   errors |-> <<one.entry>> \o rest.errors]

\* a shape check that lets one photo too many through
ShapeError_OneTooMany(photoUrls) ==
    IF ~IsArray(photoUrls) THEN "INVALID_INPUT"
    ELSE IF Len(photoUrls.v) = 0 THEN "EMPTY_ARRAY"
    ELSE IF Len(photoUrls.v) > MaxPhotos + 1 THEN "TOO_MANY_PHOTOS"
    ELSE "NONE"

\* lines 72-94: the error the shape of the input is rejected with
ShapeError(photoUrls) ==
    IF ~IsArray(photoUrls) THEN "INVALID_INPUT"
    ELSE IF Len(photoUrls.v) = 0 THEN "EMPTY_ARRAY"
    ELSE IF Len(photoUrls.v) > MaxPhotos THEN "TOO_MANY_PHOTOS"
    ELSE "NONE"

validatePhotoUrls(photoUrls) ==
    IF ShapeError(photoUrls) # "NONE"
    THEN [success |-> FALSE, error |-> ShapeError(photoUrls)]
    ELSE LET r == ValidateEach(photoUrls.v, 0) IN
         IF Len(r.errors) > 0
         THEN [success |-> FALSE, error |-> "VALIDATION_FAILED",
               validatedUrls |-> r.validatedUrls, errors |-> r.errors,
               message |-> [failed |-> Len(r.errors), total |-> Len(photoUrls.v)]]
         ELSE [success |-> TRUE, validatedUrls |-> r.validatedUrls,
               message |-> [failed |-> 0, total |-> Len(photoUrls.v)]]

(***************************************************************************)
(* photo-analyzer.js: verifyPhotoAccessibility, estimateDimensions,        *)
(* assessImageQuality, extractPhotoMetadata.                               *)
(* The HEAD request ends in one of: a response (status and headers), the   *)
(* expiry of its 5 s timeout, or a network failure.                        *)
(***************************************************************************)
MinFileSize == 1024
MaxFileSize == 10485760

AxiosError(code, hasResponse, status, message) ==
    [code |-> code, hasResponse |-> hasResponse, status |-> status, message |-> message]

Msg(kind, detail) == [kind |-> kind, detail |-> detail]

\* await axios(config) with validateStatus 200..299 and timeout 5000: the
\* response it resolves to, or the error it rejects with
Axios(outcome) ==
    CASE outcome.kind = "timeout" ->
            [threw |-> TRUE,
             error |-> AxiosError("ECONNABORTED", FALSE, 0, Msg("timeout exceeded", <<>>))]
      [] outcome.kind = "network" ->
            [threw |-> TRUE,
             error |-> AxiosError(outcome.code, FALSE, 0, Msg("network", <<>>))]
      [] outcome.kind = "response" /\ ~(outcome.status >= 200 /\ outcome.status < 300) ->
            [threw |-> TRUE,
             error |-> AxiosError("ERR_BAD_RESPONSE", TRUE, outcome.status,
                                  Msg("status", <<Num(outcome.status)>>))]
      [] OTHER -> [threw |-> FALSE, response |-> outcome]

\* lines 520-545: the try block after the request resolved
CheckResponse(response) ==
    LET contentType == response.contentType
        contentLength ==
            ParseInt(IF Truthy(response.contentLength) THEN response.contentLength.v
                     ELSE <<"0">>)
    IN  IF ~Truthy(contentType) \/ contentType.v[1] # "image/"
        THEN [threw |-> TRUE,
              error |-> AxiosError("NONE", FALSE, 0, Msg("Invalid content type", <<contentType>>))]
        ELSE IF contentLength = Num(0)
        THEN [threw |-> TRUE,
              error |-> AxiosError("NONE", FALSE, 0, Msg("Image file appears to be empty", <<>>))]
        ELSE IF contentLength.t = "number"
                /\ (contentLength.v < MinFileSize \/ contentLength.v > MaxFileSize)
        THEN [threw |-> TRUE,
              error |-> AxiosError("NONE", FALSE, 0,
                                   Msg("Image file size out of range", <<contentLength>>))]
        ELSE [threw |-> FALSE,
              value |-> [accessible |-> TRUE, contentType |-> contentType,
                         contentLength |-> contentLength]]

\* lines 547-571: the catch block
CatchAccessibility(error) ==
    IF error.code = "ECONNABORTED"
    THEN [accessible |-> FALSE, error |-> "TIMEOUT", message |-> Msg("timed out", <<>>)]
    ELSE IF error.hasResponse
    THEN [accessible |-> FALSE, error |-> "HTTP_ERROR", statusCode |-> error.status,
          message |-> Msg("HTTP", <<Num(error.status)>>)]
    ELSE [accessible |-> FALSE, error |-> "NETWORK_ERROR", message |-> error.message]

verifyPhotoAccessibility(photoUrl, outcome) ==
    LET r == Axios(outcome) IN
    IF r.threw THEN CatchAccessibility(r.error)
    ELSE LET c == CheckResponse(r.response) IN
         IF c.threw THEN CatchAccessibility(c.error) ELSE c.value

\* the largest r with r * r <= n, for n in lo*lo .. hi*hi - 1
RECURSIVE ISqrt(_, _, _)
ISqrt(n, lo, hi) ==
    IF hi - lo <= 1 THEN lo
    ELSE LET mid == (lo + hi) \div 2 IN
         IF mid * mid <= n THEN ISqrt(n, mid, hi) ELSE ISqrt(n, lo, mid)

\* Math.round(Math.sqrt(num / 3)): the r with (r - 1/2)^2 <= num/3 < (r + 1/2)^2,
\* that is (2r - 1)^2 * 3 <= 4 * num < (2r + 1)^2 * 3
RoundSqrtThird(num) ==
    LET twice == ISqrt((4 * num) \div 3, 0, 46340)   \* floor(2 * sqrt(num/3))
    IN  (twice + 1) \div 2

estimateDimensions(fileSize, format) ==
    LET compressionRatio ==
            CASE format = "PNG" -> 6
              [] format = "WebP" -> 12
              [] format = "JPEG" -> 10
              [] OTHER -> 10
        side == RoundSqrtThird(fileSize * compressionRatio)
    IN  [width |-> side, height |-> side, aspectRatio |-> "1.00", estimated |-> TRUE]

NoDimensions == [width |-> -1, height |-> -1, aspectRatio |-> "", estimated |-> FALSE]

Max2(a, b) == IF a >= b THEN a ELSE b
Min2(a, b) == IF a <= b THEN a ELSE b

\* a quality assessment that calls the resolution low only when both sides are
assessImageQuality_LowOnlyIfBoth(metadata) ==
    LET sizeTerm ==
            IF metadata.fileSize < 100000
            THEN [score |-> -10, issues |-> <<"File size may be too small for detailed analysis">>]
            ELSE IF metadata.fileSize > 5000000
            THEN [score |-> -5, issues |-> <<"File size is very large, may affect processing speed">>]
            ELSE [score |-> 20, issues |-> <<>>]
        dimTerm ==
            IF metadata.dimensions # NoDimensions
            THEN LET width == metadata.dimensions.width
                     height == metadata.dimensions.height
                 IN  IF width < 300 /\ height < 300
                     THEN [score |-> -15,
                           issues |-> <<"Image resolution may be too low for accurate analysis">>]
                     ELSE IF width >= 800 /\ height >= 600
                     THEN [score |-> 25, issues |-> <<>>]
                     ELSE [score |-> 15, issues |-> <<>>]
            ELSE [score |-> 0, issues |-> <<>>]
        formatTerm ==
            IF metadata.format = "JPEG" \/ metadata.format = "PNG"
            THEN [score |-> 10, issues |-> <<>>]
            ELSE IF metadata.format = "WebP"
            THEN [score |-> 5, issues |-> <<>>]
            ELSE [score |-> -10, issues |-> <<"Image format may not be optimal for analysis">>]
        raw == sizeTerm.score + dimTerm.score + formatTerm.score
        issues == sizeTerm.issues \o dimTerm.issues \o formatTerm.issues
    IN  [score |-> Max2(0, Min2(100, raw + 50)),
         issues |-> issues,
         suitable |-> (raw >= 30 /\ Len(issues) < 3)]

assessImageQuality(metadata) ==
    LET sizeTerm ==
            IF metadata.fileSize < 100000
            THEN [score |-> -10, issues |-> <<"File size may be too small for detailed analysis">>]
            ELSE IF metadata.fileSize > 5000000
            THEN [score |-> -5, issues |-> <<"File size is very large, may affect processing speed">>]
            ELSE [score |-> 20, issues |-> <<>>]
        dimTerm ==
            IF metadata.dimensions # NoDimensions
            THEN LET width == metadata.dimensions.width
                     height == metadata.dimensions.height
                 IN  IF width < 300 \/ height < 300
                     THEN [score |-> -15,
                           issues |-> <<"Image resolution may be too low for accurate analysis">>]
                     ELSE IF width >= 800 /\ height >= 600
                     THEN [score |-> 25, issues |-> <<>>]
                     ELSE [score |-> 15, issues |-> <<>>]
            ELSE [score |-> 0, issues |-> <<>>]
        formatTerm ==
            IF metadata.format = "JPEG" \/ metadata.format = "PNG"
            THEN [score |-> 10, issues |-> <<>>]
            ELSE IF metadata.format = "WebP"
            THEN [score |-> 5, issues |-> <<>>]
            ELSE [score |-> -10, issues |-> <<"Image format may not be optimal for analysis">>]
        raw == sizeTerm.score + dimTerm.score + formatTerm.score
        issues == sizeTerm.issues \o dimTerm.issues \o formatTerm.issues
    IN  [score |-> Max2(0, Min2(100, raw + 50)),
         issues |-> issues,
         suitable |-> (raw >= 30 /\ Len(issues) < 3)]

\* extractPhotoMetadata, given what verifyPhotoAccessibility resolved to
ExtractFromCheck(photoUrl, accessibilityCheck) ==
    IF ~accessibilityCheck.accessible
    THEN [success |-> FALSE, error |-> "METADATA_EXTRACTION_FAILED",
          message |-> Msg("Photo not accessible", <<accessibilityCheck.message>>),
          url |-> photoUrl]
    ELSE LET format == detectImageFormat(photoUrl)
             fileSize == accessibilityCheck.contentLength.v
             dimensions ==
                 IF Truthy(accessibilityCheck.contentLength)
                    /\ Truthy(accessibilityCheck.contentType)
                 THEN estimateDimensions(fileSize, format)
                 ELSE NoDimensions
             metadata == [url |-> photoUrl,
                          contentType |-> accessibilityCheck.contentType,
                          fileSize |-> fileSize,
                          format |-> format,
                          dimensions |-> dimensions]
         IN  [success |-> TRUE,
              metadata |-> [url |-> photoUrl,
                            contentType |-> accessibilityCheck.contentType,
                            fileSize |-> fileSize,
                            format |-> format,
                            dimensions |-> dimensions,
                            quality |-> assessImageQuality(metadata)]]

extractPhotoMetadata(photoUrl, outcome) ==
    ExtractFromCheck(photoUrl, verifyPhotoAccessibility(photoUrl, outcome))

(***************************************************************************)
(* photo-analyzer.js: handlePhotoErrors and the pieces of formatPhotosForAI*)
(***************************************************************************)
JsError(name, code, hasResponse) == [name |-> name, code |-> code, hasResponse |-> hasResponse]

\* the error code handlePhotoErrors answers with
handlePhotoErrors(error) ==
    [success |-> FALSE, module |-> "photo-analyzer",
     error |-> IF error.code = "ECONNREFUSED" THEN "CONNECTION_REFUSED"
               ELSE IF error.code = "ENOTFOUND" THEN "URL_NOT_FOUND"
               ELSE IF error.code = "ECONNABORTED" THEN "REQUEST_TIMEOUT"
               ELSE IF error.hasResponse THEN "HTTP_ERROR"
               ELSE IF error.name = "ValidationError" THEN "VALIDATION_ERROR"
               ELSE IF error.name = "TypeError" THEN "TYPE_ERROR"
               ELSE "UNKNOWN_ERROR"]

\* lines 236-256: the entry pushed to formattedPhotos
FormattedPhoto(photo, metadata) ==
    [id |-> [index |-> photo.index],
     url |-> photo.originalUrl,
     type |-> "image_url",
     format |-> metadata.format,
     quality |-> metadata.quality,
     dimensions |-> metadata.dimensions,
     fileSize |-> metadata.fileSize,
     contentType |-> metadata.contentType,
     aiCompatible |-> metadata.quality.suitable,
     processingNotes |->
        (IF metadata.quality.score < 50
         THEN <<"Low quality image - analysis may be limited">> ELSE <<>>)
        \o metadata.quality.issues]

\* lines 227-231: the entry pushed to processingErrors
ProcessingError(photo, metadataResult) ==
    [url |-> photo.originalUrl, error |-> metadataResult.error,
     message |-> metadataResult.message]

RECURSIVE SumScores(_)
SumScores(list) ==
    IF list = <<>> THEN 0 ELSE Head(list).quality.score + SumScores(Tail(list))

\* Math.round(a / b) for a >= 0, b > 0
RoundDiv(a, b) == (2 * a + b) \div (2 * b)

IsCompatible(p) == p.aiCompatible
\* a recommendation that asks for a score of 90
IsRecommended_Above90(p) == p.aiCompatible /\ p.quality.score >= 90
IsRecommended(p) == p.aiCompatible /\ p.quality.score >= 60

\* a summary whose mean is taken over all the photos of the call
Summary_MeanOverAll(validatedPhotos, formatted, errors) ==
    [totalPhotos |-> Len(validatedPhotos),
     processedPhotos |-> Len(formatted),
     failedPhotos |-> Len(errors),
     aiCompatiblePhotos |-> Len(SelectSeq(formatted, IsCompatible)),
     averageQuality |-> IF Len(formatted) > 0
                        THEN RoundDiv(SumScores(formatted), Len(validatedPhotos))
                        ELSE 0,
     recommendedForAnalysis |-> Len(SelectSeq(formatted, IsRecommended))]

\* lines 270-279
Summary(validatedPhotos, formatted, errors) ==
    [totalPhotos |-> Len(validatedPhotos),
     processedPhotos |-> Len(formatted),
     failedPhotos |-> Len(errors),
     aiCompatiblePhotos |-> Len(SelectSeq(formatted, IsCompatible)),
     averageQuality |-> IF Len(formatted) > 0
                        THEN RoundDiv(SumScores(formatted), Len(formatted))
                        ELSE 0,
     recommendedForAnalysis |-> Len(SelectSeq(formatted, IsRecommended))]

\* lines 282-289
FormatResult(validatedPhotos, formatted, errors) ==
    LET summary == Summary(validatedPhotos, formatted, errors) IN
    [success |-> TRUE,
     photos |-> formatted,
     summary |-> summary,
     processingErrors |-> IF Len(errors) > 0 THEN Arr(errors) ELSE Undefined,
     readyForAI |-> summary.recommendedForAnalysis > 0]

(***************************************************************************)
(* data-validator.js: validateAPIRequest (the Joi schema)                  *)
(***************************************************************************)
\* user ids that are alphanumeric and 20 to 28 characters long
ValidUserIds == {Str(<<"u0123456789abcdefghij">>), Str(<<"u0123456789abcdefghij01234567">>)}

JoiSkinTypes == {SkinTypes[1], SkinTypes[2], SkinTypes[3], SkinTypes[5]}

\* the first error of schema.validate(data) (abortEarly), "none" when the
\* schema accepts data
JoiError(data) ==
    IF data = Undefined THEN "none"
    ELSE IF data.t # "object" THEN "object.base"
    ELSE LET userId == Get(data, "userId")
             skinType == Get(data, "skinType")
             concerns == Get(data, "concerns")
         IN  IF userId = Undefined THEN "any.required"
             ELSE IF userId.t # "string" THEN "string.base"
             ELSE IF userId \notin ValidUserIds THEN "string.min"
             ELSE IF skinType = Undefined THEN "any.required"
             ELSE IF skinType \notin JoiSkinTypes THEN "any.only"
             ELSE IF concerns = Undefined THEN "any.required"
             ELSE IF concerns.t # "array" THEN "array.base"
             ELSE IF \E i \in 1..Len(concerns.v) : concerns.v[i].t # "string"
                  THEN "string.base"
             ELSE IF Len(concerns.v) > 5 THEN "array.max"
             ELSE IF DOMAIN data.v \ {"userId", "skinType", "concerns"} # {}
                  THEN "object.unknown"
             ELSE "none"

\* returns Joi's result object {value, error}: an object whether or not
\* the schema accepted data
validateAPIRequest(data) ==
    Obj([value |-> data,
         error |-> IF JoiError(data) = "none" THEN Undefined
                   ELSE Str(<<JoiError(data)>>)])

(***************************************************************************)
(* recommendation-engine.js                                                *)
(***************************************************************************)
TypeError == [name |-> "TypeError", code |-> "NONE", hasResponse |-> FALSE]

\* the template of buildChainOfThoughtPrompt reads profile.skinType,
\* profile.concerns.join(", "), ..., photos.summary: a TypeError unless
\* profile and photos are values with properties and profile.concerns an array
buildChainOfThoughtPrompt(profile, photos) ==
    IF profile.t \in {"null", "undefined"} THEN Thrown(TypeError)
    ELSE IF Get(profile, "concerns").t # "array" THEN Thrown(TypeError)
    ELSE IF photos.t \in {"null", "undefined"} THEN Thrown(TypeError)
    ELSE Returned([skinType |-> Get(profile, "skinType"),
                   concerns |-> JoinArr(Get(profile, "concerns").v),
                   sensitivityLevel |-> Get(profile, "sensitivityLevel"),
                   ageGroup |-> Get(profile, "ageGroup"),
                   photoSummary |-> IF Truthy(Get(photos, "summary"))
                                    THEN Get(photos, "summary")
                                    ELSE Str(<<"No significant findings detected">>)])

AiError(code, cause) == [code |-> code, cause |-> cause]

\* always throws: the Error whose message starts with the code
handleAIError(error) ==
    IF error.status = 429 THEN AiError("API_RATE_LIMIT", "rate limit")
    ELSE IF error.code = "ETIMEDOUT" THEN AiError("API_TIMEOUT", "timeout")
    ELSE AiError("API_ERROR", error.message)

\* the position (0-based) of the first / last chunk equal to c, -1 if none
IndexOf(s, c) ==
    IF \E i \in 1..Len(s) : s[i] = c
    THEN (CHOOSE i \in 1..Len(s) : s[i] = c /\ \A j \in 1..(i - 1) : s[j] # c) - 1
    ELSE -1
LastIndexOf(s, c) ==
    IF \E i \in 1..Len(s) : s[i] = c
    THEN (CHOOSE i \in 1..Len(s) : s[i] = c /\ \A j \in (i + 1)..Len(s) : s[j] # c) - 1
    ELSE -1

\* String.prototype.slice(start, end): a negative start counts from the end
Slice(s, start, end) ==
    LET from == IF start < 0 THEN Max2(Len(s) + start, 0) ELSE Min2(start, Len(s))
        to == IF end < 0 THEN Max2(Len(s) + end, 0) ELSE Min2(end, Len(s))
    IN  SubSeq(s, from + 1, to)

RecommendationList == Arr(<<Obj([category |-> Str(<<"Cleanser">>)])>>)

\* the JSON texts written between the braces of an object, and their values
JsonMembers ==
    [recommendationsArray |-> [recommendations |-> RecommendationList],
     recommendationsText |-> [recommendations |-> Str(<<"none">>)],
     otherMember |-> [items |-> Arr(<<>>)]]

\* JSON.parse of a text given by its chunks
JsonParse(text) ==
    IF text = <<"{", "}">> THEN Returned(Obj(<<>>))
    ELSE IF Len(text) = 3 /\ text[1] = "{" /\ text[3] = "}" /\ text[2] \in DOMAIN JsonMembers
    THEN Returned(Obj(JsonMembers[text[2]]))
    ELSE Thrown([name |-> "SyntaxError", code |-> "NONE", hasResponse |-> FALSE])

parseAIResponse(responseText) ==
    LET jsonStart == IndexOf(responseText, "{")
        jsonEnd == LastIndexOf(responseText, "}") + 1
        cleanJson == Slice(responseText, jsonStart, jsonEnd)
        parsed == JsonParse(cleanJson)
    IN  IF parsed.threw THEN Thrown([status |-> 0, code |-> "NONE",
                                     message |-> "RESPONSE_PARSE_ERROR: SyntaxError"])
        ELSE IF ~Truthy(Get(parsed.value, "recommendations"))
                \/ ~IsArray(Get(parsed.value, "recommendations"))
        THEN Thrown([status |-> 0, code |-> "NONE",
                     message |-> "RESPONSE_PARSE_ERROR: Invalid response format from AI"])
        ELSE Returned(parsed.value)

\* the promise generateRecommendations returns
Awaiting(prompt) == [state |-> "awaitingLLM", prompt |-> prompt]
Resolved(value) == [state |-> "resolved", value |-> value]
Rejected(error) == [state |-> "rejected", error |-> error]

\* lines 219-235: generateRecommendations up to `await
\* openai.chat.completions.create(...)`; an exception of the prompt builder
\* is caught on line 240 and rethrown by handleAIError
GenCall(userProfile, photoAnalysis) ==
    LET prompt == buildChainOfThoughtPrompt(userProfile, photoAnalysis) IN
    IF prompt.threw
    THEN Rejected(handleAIError([status |-> 0, code |-> "NONE", message |-> "TypeError"]))
    ELSE Awaiting(prompt.value)

\* lines 238-242: generateRecommendations once the LLM call has settled
GenSettle(outcome) ==
    IF outcome.kind = "error"
    THEN Rejected(handleAIError([status |-> outcome.status, code |-> outcome.code,
                                 message |-> "upstream"]))
    ELSE IF outcome.choices = <<>>
    THEN Rejected(handleAIError([status |-> 0, code |-> "NONE", message |-> "TypeError"]))
    ELSE LET r == parseAIResponse(outcome.choices[1]) IN
         IF r.threw THEN Rejected(handleAIError(r.error)) ELSE Resolved(r.value)

(***************************************************************************)
(* A direct call of validateProfileData on a profile record.               *)
(***************************************************************************)
S_blank == <<" ", " ">>
S_Al == <<"A", "l">>
S_A == <<"A">>
S_NY == <<"N", "Y">>
S_30 == <<"3", "0">>
S_Dry == <<"D", "r", "y">>
S_pimples == <<"p","i","m","p","l","e","s">>
S_scars == <<"s","c","a","r","s">>

NameValues == {Undefined, Null, Str(<<>>), Str(S_blank), Str(S_Al), Num(5)}
AgeValues ==
    {Undefined, Str(S_30), Str(<<"5">>), NaN, Num(12), Num(13), Num(120), Num(121),
     Dec(129), Dec(1201)}
SkinTypeValues ==
    {Undefined, Null, SkinTypes[1], SkinTypes[4], Str(S_Dry), Num(5), Arr(<<>>)}
ConcernsValues ==
    {Undefined, Arr(<<>>), Arr(<<Concerns[1]>>), Arr(<<Concerns[1], Concerns[5]>>),
     Arr(<<Concerns[1], Str(S_pimples)>>),
     Arr(<<Str(S_pimples), Concerns[2], Str(S_scars)>>), Concerns[1], Num(5)}
LocationValues == {Undefined, Str(S_blank), Str(S_A), Str(S_NY), Num(5)}

ProfileObjects ==
    { Obj([name |-> n, age |-> a, skinType |-> s, concerns |-> c, location |-> l]) :
        n \in NameValues, a \in AgeValues, s \in SkinTypeValues,
        c \in ConcernsValues, l \in LocationValues }

ProfileNonObjects == {Undefined, Null, NaN, Num(0), Num(5), Str(<<>>), Str(S_Al)}

ProfileInputs == ProfileObjects \cup ProfileNonObjects \cup {Arr(<<>>)}

NoRet == [ret |-> "pending", valid |-> FALSE, errors |-> <<>>]

InitProfile ==
    /\ fn = "validateProfileData"
    /\ arg \in ProfileInputs
    /\ ret = NoRet
    /\ done = FALSE
    /\ FmtIdle
    /\ HttpIdle

CallValidateProfileData ==
    /\ fn = "validateProfileData"
    /\ ~done
    /\ ret' = validateProfileData(arg)
    /\ done' = TRUE
    /\ UNCHANGED <<fn, arg>>
    /\ UNCHANGED notPure

NextProfile == CallValidateProfileData

SpecProfile == InitProfile /\ [][NextProfile]_vars

(***************************************************************************)
(* The rules of the field validator, one by one, as the contract states    *)
(* them: which rules of a field a value violates.                          *)
(***************************************************************************)
FieldKeys == {requiredFields[i].key : i \in 1..Len(requiredFields)}
FieldOf(key) == CHOOSE f \in {requiredFields[i] : i \in 1..Len(requiredFields)} : f.key = key
RuleKinds ==
    {"missing", "string", "number", "min", "max", "array", "invalidValues",
     "oneOf", "minLength"}

\* undefined, null or a whitespace-only string
Absent(value) ==
    value.t \in {"undefined", "null"}
    \/ (value.t = "string" /\ \A i \in 1..Len(value.v) : value.v[i] \in WhiteSpace)

Violates(key, rule, value) ==
    LET f == FieldOf(key) IN
    IF rule = "missing" THEN Absent(value)
    ELSE /\ ~Absent(value)
         /\ CASE rule = "string" -> f.type = "string" /\ value.t # "string"
              [] rule = "number" -> f.type = "number" /\ value.t \notin {"number", "decimal"}
              [] rule = "array" -> f.type = "object" /\ value.t # "array"
              [] rule = "min" ->
                    /\ "min" \in DOMAIN f /\ value.t \in {"number", "decimal"}
                    /\ Tenths(value) < 10 * f.min
              [] rule = "max" ->
                    /\ "max" \in DOMAIN f /\ value.t \in {"number", "decimal"}
                    /\ Tenths(value) > 10 * f.max
              [] rule = "oneOf" ->
                    /\ f.type = "string" /\ "allowed" \in DOMAIN f
                    /\ value.t = "string"
                    /\ \A i \in 1..Len(f.allowed) : f.allowed[i] # value
              [] rule = "invalidValues" ->
                    /\ f.type = "object" /\ "allowed" \in DOMAIN f
                    /\ value.t = "array"
                    /\ \E j \in 1..Len(value.v) :
                          \A i \in 1..Len(f.allowed) : f.allowed[i] # value.v[j]
              [] rule = "minLength" ->
                    /\ "minLength" \in DOMAIN f /\ value.t = "string"
                    /\ Len(value.v) < f.minLength
              [] OTHER -> FALSE

\* the number of entries of kind `kind` about field `key` in an error list
CountErrors(errors, kind, key) ==
    Cardinality({i \in 1..Len(errors) : errors[i].kind = kind /\ errors[i].key = key})

IsRecordInput(x) == x.t \in {"object", "array"}

ProfileCallDone == fn = "validateProfileData" /\ done

\* C5: validateProfileData returns true exactly when no rule of any of the
\* five fields is violated; otherwise it returns {valid:false, errors} with a
\* non-empty list holding an entry for every violated rule of every field;
\* an input that is no object yields exactly the one top-level error.
C5_AllOrItemized ==
    ProfileCallDone =>
        IF ~IsRecordInput(arg)
        THEN ret = Invalid(<<TopLevelError>>)
        ELSE /\ (ret.ret = "true") <=>
                    (\A k \in FieldKeys, r \in RuleKinds : ~Violates(k, r, Get(arg, k)))
             /\ ret.ret # "true" =>
                    /\ ret.ret = "object" /\ ret.valid = FALSE
                    /\ Len(ret.errors) > 0
                    /\ \A k \in FieldKeys, r \in RuleKinds :
                          Violates(k, r, Get(arg, k)) => CountErrors(ret.errors, r, k) >= 1

\* C5 witness: a rejected record whose list itemizes violations of three
\* different fields, two of them on one field's neighbour
C5_Witness ==
    /\ ProfileCallDone /\ IsRecordInput(arg) /\ ret.ret = "object"
    /\ CountErrors(ret.errors, "missing", "name") = 1
    /\ CountErrors(ret.errors, "max", "age") = 1
    /\ CountErrors(ret.errors, "invalidValues", "concerns") = 1
    /\ CountErrors(ret.errors, "minLength", "location") = 1

\* C6: a required field that is undefined, null or a blank string gets
\* "Missing required field: X" exactly once and no other error, while the
\* violations of the other fields are still reported.
C6_MissingOnly ==
    (ProfileCallDone /\ IsRecordInput(arg)) =>
        \A k \in FieldKeys :
            Absent(Get(arg, k)) =>
                /\ CountErrors(ret.errors, "missing", k) = 1
                /\ \A r \in RuleKinds \ {"missing"} : CountErrors(ret.errors, r, k) = 0
                /\ \A g \in FieldKeys \ {k}, r \in RuleKinds :
                      Violates(g, r, Get(arg, g)) => CountErrors(ret.errors, r, g) >= 1

\* C6 witness: a blank name is reported missing and, in the same run, a later
\* field's type error is reported too
C6_Witness ==
    /\ ProfileCallDone /\ IsRecordInput(arg)
    /\ Get(arg, "name") = Str(S_blank)
    /\ CountErrors(ret.errors, "missing", "name") = 1
    /\ CountErrors(ret.errors, "string", "location") = 1

(***************************************************************************)
(* A direct call of validatePhotoUrls.                                     *)
(***************************************************************************)
MaxArrayLen == 6

U_jpg == Str(<<"https://", "cdn.example.com", "/a", ".jpg">>)
U_PNG_padded == Str(<<" ", "http://", "img.example.org", "/b", ".PNG", " ">>)
U_png_inside == Str(<<"https://", "cdn.example.com", "/c", ".png", "/thumb">>)
U_webp == Str(<<"https://", "cdn.example.com", "/d", ".webp">>)
U_jpeg == Str(<<"https://", "cdn.example.com", "/e", ".jpeg">>)
U_gif == Str(<<"https://", "cdn.example.com", "/f", ".gif">>)
U_ftp == Str(<<"ftp://", "cdn.example.com", "/a", ".jpg">>)
U_noTld == Str(<<"http://", "localhost", "/a", ".png">>)
U_relative == Str(<<"//", "cdn.example.com", "/a", ".jpg">>)

\* the elements the arrays are built from
UrlElements == {U_jpg, U_PNG_padded, U_gif, U_ftp, Num(5)}
\* the elements a one-element array is tried on as well
MoreUrlElements ==
    {U_png_inside, U_webp, U_jpeg, U_noTld, U_relative, Str(S_blank), Str(<<>>),
     Null, Undefined, Arr(<<>>)}

UrlArrays ==
    {Arr(a) : a \in UNION {[1..n -> UrlElements] : n \in 0..MaxArrayLen}}
    \cup {Arr(<<e>>) : e \in MoreUrlElements}
    \cup {Arr(<<U_jpg, e, U_webp>>) : e \in MoreUrlElements}

PhotoUrlInputs == UrlArrays \cup {Undefined, Null, U_jpg, Num(3), Obj([length |-> Num(2)])}

InitPhotoUrls ==
    /\ fn = "validatePhotoUrls"
    /\ arg \in PhotoUrlInputs
    /\ ret = NoRet
    /\ done = FALSE
    /\ FmtIdle
    /\ HttpIdle

CallValidatePhotoUrls ==
    /\ fn = "validatePhotoUrls"
    /\ ~done
    /\ ret' = validatePhotoUrls(arg)
    /\ done' = TRUE
    /\ UNCHANGED <<fn, arg>>
    /\ UNCHANGED notPure

NextPhotoUrls == CallValidatePhotoUrls

SpecPhotoUrls == InitPhotoUrls /\ [][NextPhotoUrls]_vars

PhotoUrlsCallDone == fn = "validatePhotoUrls" /\ done

\* C7: the shape of the input decides first: a non-array gives INVALID_INPUT,
\* an empty array EMPTY_ARRAY, an array of more than 5 elements
\* TOO_MANY_PHOTOS whatever its elements are; in all three success is false
\* and the result has no validatedUrls.
C7_ShapeFirst ==
    PhotoUrlsCallDone =>
        LET shape == IF arg.t # "array" THEN "INVALID_INPUT"
                     ELSE IF Len(arg.v) = 0 THEN "EMPTY_ARRAY"
                     ELSE IF Len(arg.v) > 5 THEN "TOO_MANY_PHOTOS"
                     ELSE "NONE"
        IN  shape # "NONE" =>
                /\ ret.success = FALSE
                /\ ret.error = shape
                /\ "validatedUrls" \notin DOMAIN ret
                /\ "errors" \notin DOMAIN ret

\* C7 witness: six well-formed URLs are rejected as TOO_MANY_PHOTOS
C7_Witness ==
    /\ PhotoUrlsCallDone
    /\ arg = Arr(<<U_jpg, U_jpg, U_PNG_padded, U_jpg, U_jpg, U_PNG_padded>>)
    /\ ret.error = "TOO_MANY_PHOTOS"

\* the indexes carried by the entries of a list
IndexesOf(list) == {list[i].index : i \in 1..Len(list)}

\* C8: for an array of 1 to 5 elements every element yields exactly one
\* entry, in validatedUrls or in errors, carrying its own index, decided by
\* that element alone (as if it were validated on its own), and success is
\* true exactly when errors is empty.
C8_EachElementOnce ==
    (PhotoUrlsCallDone /\ arg.t = "array" /\ Len(arg.v) \in 1..5) =>
        LET n == Len(arg.v)
            errs == IF "errors" \in DOMAIN ret THEN ret.errors ELSE <<>>
            oks == ret.validatedUrls
        IN  /\ Len(oks) + Len(errs) = n
            /\ IndexesOf(oks) \cup IndexesOf(errs) = 0..(n - 1)
            /\ IndexesOf(oks) \cap IndexesOf(errs) = {}
            /\ \A i \in 1..n :
                  LET alone == validatePhotoUrls(Arr(<<arg.v[i]>>)) IN
                  /\ alone.success <=> (i - 1) \in IndexesOf(oks)
                  /\ alone.success =>
                        \E j \in 1..Len(oks) :
                            /\ oks[j].index = i - 1
                            /\ oks[j].originalUrl = alone.validatedUrls[1].originalUrl
                            /\ oks[j].format = alone.validatedUrls[1].format
                  /\ ~alone.success =>
                        \E j \in 1..Len(errs) :
                            /\ errs[j].index = i - 1
                            /\ errs[j].error = alone.errors[1].error
            /\ ret.success <=> (errs = <<>>)

\* C8 witness: a failing first element, then a valid one, then a failing one,
\* then a valid one: two entries in each list
C8_Witness ==
    /\ PhotoUrlsCallDone
    /\ arg = Arr(<<U_gif, U_jpg, Num(5), U_PNG_padded>>)
    /\ ~ret.success
    /\ IndexesOf(ret.validatedUrls) = {1, 3}
    /\ IndexesOf(ret.errors) = {0, 2}

(***************************************************************************)
(* A direct call of extractPhotoMetadata: the HEAD request is issued, then *)
(* it settles.                                                             *)
(***************************************************************************)
ImageJpeg == Str(<<"image/", "jpeg">>)
ImagePng == Str(<<"image/", "png">>)
TextHtml == Str(<<"text/", "html">>)
UpperImage == Str(<<"IMAGE/", "JPEG">>)

Response(status, contentType, contentLength) ==
    [kind |-> "response", status |-> status, contentType |-> contentType,
     contentLength |-> contentLength]

\* the sizes a server announces
FileSizes ==
    {0, 1, 1023, 1024, 50000, 99999, 100000, 2000000, 5000000, 5000001,
     10485760, 10485761}

SizeHeaders == {Undefined} \cup {Str(Digits(n)) : n \in FileSizes}

ProbeOutcomes ==
    {[kind |-> "timeout"], [kind |-> "network", code |-> "ENOTFOUND"],
     [kind |-> "network", code |-> "ERR_FR_TOO_MANY_REDIRECTS"]}
    \cup {Response(st, ImageJpeg, Str(Digits(2000000))) : st \in {199, 300, 304, 404, 500}}
    \cup {Response(st, ct, cl) :
            st \in {200, 204, 299},
            ct \in {Undefined, Str(<<>>), ImageJpeg, ImagePng, TextHtml, UpperImage},
            cl \in SizeHeaders}

U_noExt == Str(<<"https://", "cdn.example.com", "/g">>)
ExtractUrls == {U_jpg, U_png_inside, U_webp, U_noExt}

InitExtract ==
    /\ fn = "extractPhotoMetadata"
    /\ arg \in ExtractUrls
    /\ ret = NoRet
    /\ done = FALSE
    /\ fpc = "start"
    /\ idx = 0
    /\ probe = NoProbe
    /\ requests = <<>>
    /\ outcomes = <<>>
    /\ formattedPhotos = <<>>
    /\ processingErrors = <<>>
    /\ HttpIdle

\* extractPhotoMetadata up to `await axios(config)` in verifyPhotoAccessibility
ExtractStart ==
    /\ fn = "extractPhotoMetadata"
    /\ fpc = "start"
    /\ probe' = [state |-> "inflight", url |-> arg.v]
    /\ requests' = Append(requests, 1)
    /\ fpc' = "probing"
    /\ UNCHANGED <<pureVars, idx, outcomes, formattedPhotos, processingErrors>>
    /\ UNCHANGED notFmt

\* the request settles; verifyPhotoAccessibility and extractPhotoMetadata run
\* to their return
ExtractSettle ==
    /\ fn = "extractPhotoMetadata"
    /\ fpc = "probing"
    /\ \E outcome \in ProbeOutcomes :
          /\ probe' = [state |-> "settled", url |-> probe.url, outcome |-> outcome,
                       check |-> verifyPhotoAccessibility(probe.url, outcome)]
          /\ ret' = extractPhotoMetadata(probe.url, outcome)
          /\ outcomes' = Append(outcomes, outcome)
    /\ done' = TRUE
    /\ fpc' = "returned"
    /\ UNCHANGED <<fn, arg, idx, requests, formattedPhotos, processingErrors>>
    /\ UNCHANGED notFmt

NextExtract == ExtractStart \/ ExtractSettle

SpecExtract == InitExtract /\ [][NextExtract]_vars

ExtractDone == fn = "extractPhotoMetadata" /\ done

\* the number a content-length header announces (-1: none)
Announced(outcome) ==
    IF outcome.contentLength = Undefined THEN -1
    ELSE CHOOSE n \in FileSizes : Str(Digits(n)) = outcome.contentLength

\* the probe met all three requirements of the contract
ProbeIsGood(outcome) ==
    /\ outcome.kind = "response"
    /\ outcome.status \in 200..299
    /\ outcome.contentType.t = "string"
    /\ Len(outcome.contentType.v) >= 1
    /\ outcome.contentType.v[1] = "image/"
    /\ Announced(outcome) >= 1024
    /\ Announced(outcome) <= 10 * 1024 * 1024

\* C9, first part: accessible is true exactly for a 2xx response with an
\* image/ content type and a size between 1024 and 10*1024*1024
C9_AccessibleIff ==
    ExtractDone => (probe.check.accessible <=> ProbeIsGood(probe.outcome))

\* C9, last part: a failed probe makes extractPhotoMetadata return
\* success:false with no metadata (no dimensions, no quality)
C9_FailureAborts ==
    (ExtractDone /\ ~probe.check.accessible) =>
        (ret.success = FALSE /\ "metadata" \notin DOMAIN ret)

\* C9: accessible:true iff 2xx, image/ content type and a size within
\* 1 KB..10 MB; every violation is returned as a failure whose error code
\* identifies its kind: TIMEOUT for a timeout, HTTP_ERROR with the status for
\* a non-2xx response, NETWORK_ERROR for a network failure (and for nothing
\* else), a rejection of its own for a wrong content type or size; and a
\* failed probe makes extractPhotoMetadata return success:false.
C9_TypedFailures ==
    ExtractDone =>
        LET o == probe.outcome
            c == probe.check
        IN  /\ c.accessible <=> ProbeIsGood(o)
            /\ ~c.accessible =>
                  /\ (c.error = "TIMEOUT") <=> (o.kind = "timeout")
                  /\ (c.error = "HTTP_ERROR") <=>
                        (o.kind = "response" /\ o.status \notin 200..299)
                  /\ c.error = "HTTP_ERROR" => c.statusCode = o.status
                  /\ (c.error = "NETWORK_ERROR") <=> (o.kind = "network")
                  /\ ret.success = FALSE /\ "metadata" \notin DOMAIN ret

(***************************************************************************)
(* A call of formatPhotosForAI: the for loop awaits one photo's probe      *)
(* before it turns to the next photo.                                      *)
(***************************************************************************)
MaxFormatPhotos == 3

\* the URL arrays whose validated part formatPhotosForAI is given
FormatUrlElements == {U_jpg, U_PNG_padded, U_gif}
ValidatedLists ==
    { validatePhotoUrls(Arr(a)).validatedUrls :
        a \in UNION {[1..n -> FormatUrlElements] : n \in 1..MaxFormatPhotos} }

FormatInputs ==
    {Arr(l) : l \in ValidatedLists}
    \cup {Undefined, Arr(<<Null>>),
          Arr(<<[originalUrl |-> U_jpg.v, index |-> 0, format |-> "JPEG"], Null>>)}

\* how the probes of the photos of one call may end
FormatOutcomes ==
    {[kind |-> "timeout"], [kind |-> "network", code |-> "ENOTFOUND"],
     Response(404, TextHtml, Undefined),
     Response(200, TextHtml, Str(Digits(2000000))),
     Response(200, ImageJpeg, Str(Digits(1023))),
     Response(200, ImageJpeg, Str(Digits(50000))),
     Response(200, ImagePng, Str(Digits(2000000))),
     Response(200, ImageJpeg, Str(Digits(5000001)))}

InitFormat ==
    /\ fn = "formatPhotosForAI"
    /\ arg \in FormatInputs
    /\ ret = NoRet
    /\ done = FALSE
    /\ fpc = "start"
    /\ idx = 0
    /\ probe = NoProbe
    /\ requests = <<>>
    /\ outcomes = <<>>
    /\ formattedPhotos = <<>>
    /\ processingErrors = <<>>
    /\ HttpIdle

FormatCall == fn = "formatPhotosForAI"

\* lines 209-218: the input check, then the loop is entered
FormatStart ==
    /\ FormatCall
    /\ fpc = "start"
    /\ IF ~IsArray(arg) \/ Len(arg.v) = 0
       THEN /\ ret' = [success |-> FALSE, error |-> "INVALID_INPUT"]
            /\ done' = TRUE
            /\ fpc' = "returned"
            /\ idx' = idx
       ELSE /\ fpc' = "loop"
            /\ idx' = 1
            /\ UNCHANGED <<ret, done>>
    /\ UNCHANGED <<fn, arg, probe, requests, outcomes, formattedPhotos, processingErrors>>
    /\ UNCHANGED notFmt

\* lines 221-224: the next photo's extractPhotoMetadata is called and its
\* HEAD request issued.  Reading originalUrl of a photo that is null throws
\* in the try and again in its catch (line 262), so the outer catch returns.
FormatProbe ==
    /\ FormatCall
    /\ fpc = "loop"
    /\ idx <= Len(arg.v)
    /\ LET photo == arg.v[idx] IN
       IF "originalUrl" \notin DOMAIN photo
       THEN /\ ret' = handlePhotoErrors(JsError("TypeError", "NONE", FALSE))
            /\ done' = TRUE
            /\ fpc' = "returned"
            /\ UNCHANGED <<probe, requests>>
       ELSE /\ probe' = [state |-> "inflight", url |-> photo.originalUrl]
            /\ requests' = Append(requests, idx)
            /\ fpc' = "probing"
            /\ UNCHANGED <<ret, done>>
    /\ UNCHANGED <<fn, arg, idx, outcomes, formattedPhotos, processingErrors>>
    /\ UNCHANGED notFmt

\* a loop that gives up on the remaining photos when one fails
FormatSettle_AbortOnFailure ==
    /\ FormatCall
    /\ fpc = "probing"
    /\ \E outcome \in FormatOutcomes :
          LET photo == arg.v[idx]
              metadataResult == extractPhotoMetadata(photo.originalUrl, outcome)
          IN  /\ probe' = [state |-> "settled", url |-> probe.url, outcome |-> outcome,
                           check |-> verifyPhotoAccessibility(probe.url, outcome)]
              /\ outcomes' = Append(outcomes, outcome)
              /\ IF ~metadataResult.success
                 THEN /\ processingErrors' =
                            Append(processingErrors, ProcessingError(photo, metadataResult))
                      /\ idx' = Len(arg.v) + 1
                      /\ UNCHANGED formattedPhotos
                 ELSE /\ formattedPhotos' =
                            Append(formattedPhotos, FormattedPhoto(photo, metadataResult.metadata))
                      /\ idx' = idx + 1
                      /\ UNCHANGED processingErrors
    /\ fpc' = "loop"
    /\ UNCHANGED <<fn, arg, ret, done, requests>>
    /\ UNCHANGED notFmt

\* lines 224-258: the request settles (a response, a network failure or the
\* expiry of its own timeout), extractPhotoMetadata returns and the photo is
\* pushed to one of the two lists
FormatSettle ==
    /\ FormatCall
    /\ fpc = "probing"
    /\ \E outcome \in FormatOutcomes :
          LET photo == arg.v[idx]
              metadataResult == extractPhotoMetadata(photo.originalUrl, outcome)
          IN  /\ probe' = [state |-> "settled", url |-> probe.url, outcome |-> outcome,
                           check |-> verifyPhotoAccessibility(probe.url, outcome)]
              /\ outcomes' = Append(outcomes, outcome)
              /\ IF ~metadataResult.success
                 THEN /\ processingErrors' =
                            Append(processingErrors, ProcessingError(photo, metadataResult))
                      /\ UNCHANGED formattedPhotos
                 ELSE /\ formattedPhotos' =
                            Append(formattedPhotos, FormattedPhoto(photo, metadataResult.metadata))
                      /\ UNCHANGED processingErrors
    /\ idx' = idx + 1
    /\ fpc' = "loop"
    /\ UNCHANGED <<fn, arg, ret, done, requests>>
    /\ UNCHANGED notFmt

\* lines 269-289: the loop is over; the summary is built and returned
FormatReturn ==
    /\ FormatCall
    /\ fpc = "loop"
    /\ idx > Len(arg.v)
    /\ ret' = FormatResult(arg.v, formattedPhotos, processingErrors)
    /\ done' = TRUE
    /\ fpc' = "returned"
    /\ UNCHANGED <<fn, arg, idx, probe, requests, outcomes, formattedPhotos, processingErrors>>
    /\ UNCHANGED notFmt

NextFormat == FormatStart \/ FormatProbe \/ FormatSettle \/ FormatReturn

SpecFormat == InitFormat /\ [][NextFormat]_vars

\* the event loop runs every continuation that is ready, and every HEAD
\* request settles (by its own 5 s timeout at the latest)
LiveSpecFormat == SpecFormat /\ WF_vars(NextFormat)

\* the call is given a non-empty list of validated photos
FormatValidInput ==
    /\ FormatCall
    /\ arg.t = "array"
    /\ Len(arg.v) >= 1
    /\ \A i \in 1..Len(arg.v) : DOMAIN arg.v[i] = {"originalUrl", "index", "format"}

CountIn(list, x) == Cardinality({k \in 1..Len(list) : list[k] = x})
CountUrl(list, u) == Cardinality({k \in 1..Len(list) : list[k].url = u})
CountOriginalUrl(list, u) == Cardinality({k \in 1..Len(list) : list[k].originalUrl = u})
FailedProbes == {k \in 1..Len(outcomes) : ~ProbeIsGood(outcomes[k])}

ReturnedErrors == IF ret.processingErrors = Undefined THEN <<>> ELSE ret.processingErrors.v

\* what holds of a call on a validated list at every moment
C10_Safe ==
    FormatValidInput =>
        /\ \A i \in 1..Len(arg.v) : CountIn(requests, i) <= 1
        /\ \A k \in 1..Len(requests) : requests[k] = k
        /\ Len(outcomes) <= Len(requests)
        /\ Len(processingErrors) = Cardinality(FailedProbes)
        /\ Len(formattedPhotos) = Len(outcomes) - Cardinality(FailedProbes)
        /\ \A k \in FailedProbes : CountUrl(processingErrors, arg.v[k].originalUrl) >= 1
        /\ done =>
              /\ ret.success = TRUE
              /\ \A i \in 1..Len(arg.v) : CountIn(requests, i) = 1
              /\ Len(outcomes) = Len(arg.v)
              /\ Len(ret.photos) + Len(ReturnedErrors) = Len(arg.v)
              /\ \A i \in 1..Len(arg.v) :
                    LET u == arg.v[i].originalUrl IN
                    CountUrl(ret.photos, u) + CountUrl(ReturnedErrors, u)
                        = CountOriginalUrl(arg.v, u)

\* C10: on a non-empty validated list every photo is probed exactly once,
\* whatever happened to the photos before it; a failed or timed-out probe
\* ends as one entry of processingErrors, no probe is repeated, and the call
\* eventually returns success:true with every photo in exactly one of
\* photos and processingErrors.
C10_EveryPhotoProbedOnce ==
    /\ [] C10_Safe
    /\ FormatValidInput ~> (done /\ ret.success = TRUE)

\* C10 witness: three photos; the first probe times out, the second succeeds,
\* the third fails on the network; the call returned one photo and two errors
C10_Witness ==
    /\ FormatValidInput /\ done
    /\ Len(arg.v) = 3
    /\ requests = <<1, 2, 3>>
    /\ outcomes[1].kind = "timeout"
    /\ ProbeIsGood(outcomes[2])
    /\ outcomes[3].kind = "network"
    /\ Len(ret.photos) = 1
    /\ Len(ReturnedErrors) = 2

(***************************************************************************)
(* auth-middleware.js: requireAuth, and server.js: the route               *)
(* POST /apirecommendations.  A header value is the sequence of its        *)
(* lexical chunks: the scheme with its blank, blanks, the credential.      *)
(***************************************************************************)
Bool(b) == [t |-> "boolean", v |-> b]

\* authHeader?.startsWith('Bearer ')
StartsWithBearer(authHeader) ==
    /\ authHeader.t = "string"
    /\ authHeader.v # <<>>
    /\ authHeader.v[1] = "Bearer "

\* the chunks of s up to the first chunk equal to sep
RECURSIVE UpTo(_, _)
UpTo(s, sep) ==
    IF s = <<>> \/ Head(s) = sep THEN <<>> ELSE <<Head(s)>> \o UpTo(Tail(s), sep)

\* authHeader.split('Bearer ')[1].trim(), for a header that starts with
\* 'Bearer ': what stands between the first and the second 'Bearer '
IdToken(authHeader) == Trim(UpTo(Tail(authHeader.v), "Bearer "))

\* the claims of a token the verifier accepted
DecodedToken(idToken) ==
    [uid |-> Str(<<"uid:">> \o idToken),
     email |-> Str(<<"user@example.com">>),
     auth_time |-> Num(1)]

\* lines 26-30 of auth-middleware.js
UserOf(decodedToken) ==
    Obj([uid |-> decodedToken.uid,
         email |-> decodedToken.email,
         authTime |-> decodedToken.auth_time])

\* res.status(status).json({error})
ErrorResponse(status, error) ==
    [status |-> status, body |-> Obj([error |-> Str(<<error>>)])]

\* res.json({success: true, recommendations, user: req.user})
SuccessResponse(recommendations, reqUser) ==
    [status |-> 200,
     body |-> Obj([success |-> Bool(TRUE),
                   recommendations |-> recommendations,
                   user |-> reqUser])]

\* the header values a request arrives with
AuthHeaders ==
    {Undefined,
     Str(<<"Basic ", "abc">>),
     Str(<<"bearer ", "tokenA">>),
     Str(<<"Bearer ">>),
     Str(<<"Bearer ", "tokenA">>),
     Str(<<"Bearer ", " ", "tokenB", " ">>),
     Str(<<"Bearer ", "Bearer ", "tokenA">>)}

SchemaValidBody ==
    Obj([userId |-> Str(<<"u0123456789abcdefghij">>),
         skinType |-> SkinTypes[1],
         concerns |-> Arr(<<Concerns[1]>>)])

SchemaBadSkinTypeBody ==
    Obj([userId |-> Str(<<"u0123456789abcdefghij">>),
         skinType |-> SkinTypes[4],
         concerns |-> Arr(<<Concerns[1]>>)])

HandlerProfile ==
    Obj([skinType |-> SkinTypes[1],
         concerns |-> Arr(<<Concerns[1], Concerns[3]>>),
         sensitivityLevel |-> Str(<<"high">>),
         ageGroup |-> Str(<<"30s">>)])

AnswerValues ==
    {Str(<<"n", "o">>),
     Obj([hydration |-> Str(<<"7">>), sunExposure |-> Str(<<"H", "I">>)]),
     Obj([sunExposure |-> Null])}

PhotoValues ==
    {Str(<<"photo">>),
     Arr(<<>>),
     Arr(<<U_jpg>>),
     Arr(<<U_jpg, U_ftp>>),
     Arr(<<U_jpg, U_jpg, U_jpg, U_jpg, U_jpg, U_jpg>>)}

\* the parsed JSON bodies express.json() hands to the route ({} when the
\* request has none)
Bodies ==
    {Obj(<<>>), Arr(<<>>), SchemaValidBody, SchemaBadSkinTypeBody}
    \cup { Obj([profileData |-> HandlerProfile,
                questionnaireAnswers |-> a,
                photos |-> p]) : a \in AnswerValues, p \in PhotoValues }

Requests == [authorization : AuthHeaders, body : Bodies]

LlmError(status, code) ==
    [kind |-> "error", status |-> status, code |-> code, choices |-> <<>>]
LlmCompletion(choices) ==
    [kind |-> "ok", status |-> 200, code |-> "NONE", choices |-> choices]

GoodCompletion ==
    LlmCompletion(<<<<"Here you are: ", "{", "recommendationsArray", "}", " Enjoy.">>>>)

\* how the LLM API answers a chat completion
LlmOutcomes ==
    {LlmError(429, "NONE"),
     LlmError(0, "ETIMEDOUT"),
     LlmError(500, "NONE"),
     LlmCompletion(<<>>),
     GoodCompletion,
     LlmCompletion(<<<<"{", "recommendationsText", "}">>>>),
     LlmCompletion(<<<<"{", "otherMember", "}">>>>),
     LlmCompletion(<<<<"Sorry, no advice today.">>>>)}

\* the arguments of a direct call of generateRecommendations
GenProfiles ==
    {Undefined, HandlerProfile, Obj([skinType |-> SkinTypes[1]]),
     Obj([profileData |-> HandlerProfile])}
GenPhotoAnalyses ==
    {Undefined, Obj(<<>>), Obj([summary |-> Str(<<"mild redness">>)])}

\* a request has arrived at the route
InitHttp ==
    /\ fn = "" /\ arg = Undefined /\ ret = NoRet /\ done = FALSE
    /\ FmtIdle
    /\ req \in Requests
    /\ pc = "requireAuth"
    /\ verdict = "none"
    /\ user = Undefined
    /\ responses = <<>>
    /\ ran = {}
    /\ locals = NoLocals
    /\ gen = NoGen
    /\ llm \in [plan : LlmOutcomes, calls : {0}]

\* generateRecommendations is about to be called directly
InitGen ==
    /\ fn = "generateRecommendations"
    /\ arg \in {Arr(<<p, a>>) : p \in GenProfiles, a \in GenPhotoAnalyses}
    /\ ret = NoRet /\ done = FALSE
    /\ FmtIdle
    /\ req = NoRequest
    /\ pc = "idle"
    /\ verdict = "none"
    /\ user = Undefined
    /\ responses = <<>>
    /\ ran = {}
    /\ locals = NoLocals
    /\ gen = NoGen
    /\ llm \in [plan : LlmOutcomes, calls : {0}]

Init == InitHttp \/ InitGen

\* a requireAuth whose 401 for a missing header does not return: the split on
\* the next line throws and the catch answers a second time
RequireAuthEnter_FallsThrough ==
    /\ pc = "requireAuth"
    /\ ran' = ran \cup {"requireAuth"}
    /\ IF ~StartsWithBearer(req.authorization)
       THEN /\ responses' =
                  Append(Append(responses,
                                ErrorResponse(401, "Missing Authorization header")),
                         ErrorResponse(401, "Invalid token"))
            /\ pc' = "done"
       ELSE /\ pc' = "verifying"
            /\ UNCHANGED responses
    /\ UNCHANGED <<req, verdict, user, locals, gen, llm>>
    /\ UNCHANGED <<pureVars, fmtVars>>

\* auth-middleware.js lines 17-24: requireAuth up to `await verifyIdToken`
RequireAuthEnter ==
    /\ pc = "requireAuth"
    /\ ran' = ran \cup {"requireAuth"}
    /\ IF ~StartsWithBearer(req.authorization)
       THEN /\ responses' = Append(responses,
                                   ErrorResponse(401, "Missing Authorization header"))
            /\ pc' = "done"
       ELSE /\ pc' = "verifying"
            /\ UNCHANGED responses
    /\ UNCHANGED <<req, verdict, user, locals, gen, llm>>
    /\ UNCHANGED <<pureVars, fmtVars>>

\* a verifier that lets a rejected token through to the next stage
VerifierSettles_NextOnReject ==
    /\ pc = "verifying"
    /\ \E accepted \in BOOLEAN :
          /\ accepted => IdToken(req.authorization) # <<>>
          /\ IF accepted
             THEN /\ verdict' = "accepted"
                  /\ user' = UserOf(DecodedToken(IdToken(req.authorization)))
             ELSE /\ verdict' = "rejected"
                  /\ UNCHANGED user
          /\ pc' = "validation"
          /\ UNCHANGED responses
    /\ UNCHANGED <<req, ran, locals, gen, llm>>
    /\ UNCHANGED <<pureVars, fmtVars>>

\* auth-middleware.js lines 24-36: verifyIdToken settles; the verifier
\* accepts no empty token, and accepts or rejects any other
VerifierSettles ==
    /\ pc = "verifying"
    /\ \E accepted \in BOOLEAN :
          /\ accepted => IdToken(req.authorization) # <<>>
          /\ IF accepted
             THEN /\ verdict' = "accepted"
                  /\ user' = UserOf(DecodedToken(IdToken(req.authorization)))
                  /\ pc' = "validation"
                  /\ UNCHANGED responses
             ELSE /\ verdict' = "rejected"
                  /\ responses' = Append(responses, ErrorResponse(401, "Invalid token"))
                  /\ pc' = "done"
                  /\ UNCHANGED user
    /\ UNCHANGED <<req, ran, locals, gen, llm>>
    /\ UNCHANGED <<pureVars, fmtVars>>

\* server.js line 35
ValidationMiddleware ==
    /\ pc = "validation"
    /\ ran' = ran \cup {"validation"}
    /\ IF Truthy(validateAPIRequest(req.body))
       THEN /\ pc' = "handler"
            /\ UNCHANGED responses
       ELSE /\ responses' = Append(responses, ErrorResponse(400, "INVALID_REQUEST"))
            /\ pc' = "done"
    /\ UNCHANGED <<req, verdict, user, locals, gen, llm>>
    /\ UNCHANGED <<pureVars, fmtVars>>

\* server.js lines 36-49: the handler up to `await generateRecommendations`;
\* an exception of the answer normaliser is caught on line 57
HandlerRun ==
    /\ pc = "handler"
    /\ LET profileData == Get(req.body, "profileData")
           questionnaireAnswers == Get(req.body, "questionnaireAnswers")
           photos == Get(req.body, "photos")
           processedProfile == processQuestionnaireAnswers(questionnaireAnswers)
           validatedPhotos == validatePhotoUrls(photos)
       IN  IF processedProfile.threw
           THEN /\ ran' = ran \cup {"handler", "processQuestionnaireAnswers"}
                /\ responses' = Append(responses, ErrorResponse(500, "INTERNAL_ERROR"))
                /\ pc' = "done"
                /\ UNCHANGED <<locals, gen>>
           ELSE /\ ran' = ran \cup {"handler", "processQuestionnaireAnswers",
                                    "validatePhotoUrls", "generateRecommendations"}
                /\ locals' = [set |-> TRUE,
                              processedProfile |-> processedProfile.value,
                              validatedPhotos |-> validatedPhotos]
                /\ gen' = GenCall(Obj([profileData |-> profileData,
                                       processedAnswers |-> processedProfile.value,
                                       photos |-> validatedPhotos]),
                                  Undefined)
                /\ pc' = "awaitingGen"
                /\ UNCHANGED responses
    /\ UNCHANGED <<req, verdict, user, llm>>
    /\ UNCHANGED <<pureVars, fmtVars>>

\* recommendation-engine.js lines 218-224: a direct call of
\* generateRecommendations up to `await openai.chat.completions.create`
DirectGenCall ==
    /\ fn = "generateRecommendations"
    /\ ~done
    /\ gen = NoGen
    /\ gen' = GenCall(arg.v[1], arg.v[2])
    /\ UNCHANGED <<req, pc, verdict, user, responses, ran, locals, llm>>
    /\ UNCHANGED <<pureVars, fmtVars>>

\* recommendation-engine.js lines 224-242: the LLM API answers
LLMSettles ==
    /\ gen.state = "awaitingLLM"
    /\ llm' = [llm EXCEPT !.calls = @ + 1]
    /\ gen' = GenSettle(llm.plan)
    /\ UNCHANGED <<req, pc, verdict, user, responses, ran, locals>>
    /\ UNCHANGED <<pureVars, fmtVars>>

\* the promise of a direct call has settled
DirectGenReturn ==
    /\ fn = "generateRecommendations"
    /\ ~done
    /\ gen.state \in {"resolved", "rejected"}
    /\ ret' = gen
    /\ done' = TRUE
    /\ UNCHANGED <<fn, arg>>
    /\ UNCHANGED <<fmtVars, httpVars>>

\* server.js lines 51-60: the handler after its await
HandlerResume ==
    /\ pc = "awaitingGen"
    /\ gen.state \in {"resolved", "rejected"}
    /\ responses' = Append(responses,
                           IF gen.state = "resolved"
                           THEN SuccessResponse(gen.value, user)
                           ELSE ErrorResponse(500, "INTERNAL_ERROR"))
    /\ pc' = "done"
    /\ UNCHANGED <<req, verdict, user, ran, locals, gen, llm>>
    /\ UNCHANGED <<pureVars, fmtVars>>

Next ==
    \/ RequireAuthEnter
    \/ VerifierSettles
    \/ ValidationMiddleware
    \/ HandlerRun
    \/ HandlerResume
    \/ DirectGenCall
    \/ LLMSettles
    \/ DirectGenReturn

Spec == Init /\ [][Next]_vars

(***************************************************************************)
(* The route's contract.                                                   *)
(***************************************************************************)
\* the stages of the route behind requireAuth
LaterStages ==
    {"validation", "handler", "processQuestionnaireAnswers", "validatePhotoUrls",
     "generateRecommendations"}

\* the request has left requireAuth
PastAuth == pc \in {"validation", "handler", "awaitingGen", "done"}

\* the request has left the validation middleware
PastValidation == pc \in {"handler", "awaitingGen", "done"} /\ "validation" \in ran

SchemaReportsError == Get(validateAPIRequest(req.body), "error") # Undefined

\* C1: every authenticated request whose body fails the request schema is
\* answered 400 {error: "INVALID_REQUEST"} and the handler never runs for it.
C1_SchemaFailureIs400 ==
    (PastValidation /\ verdict = "accepted" /\ SchemaReportsError)
        => /\ responses = <<ErrorResponse(400, "INVALID_REQUEST")>>
           /\ ran \cap {"handler", "processQuestionnaireAnswers", "validatePhotoUrls",
                        "generateRecommendations"} = {}

InputValidationFailed ==
    /\ locals.set
    /\ \/ locals.validatedPhotos.success = FALSE
       \/ HasKey(locals.processedProfile, "error")

\* C2: in the handler, when validatePhotoUrls returned success:false or
\* processQuestionnaireAnswers returned an error object, neither
\* generateRecommendations nor the LLM API is invoked for the request.
C2_ValidationShortCircuits ==
    InputValidationFailed => ("generateRecommendations" \notin ran /\ llm.calls = 0)

Unauthenticated == ~StartsWithBearer(req.authorization) \/ verdict = "rejected"

NoLaterStageRan == ran \cap LaterStages = {} /\ llm.calls = 0 /\ gen = NoGen

\* C3: requireAuth passes control on only after the verifier accepted the
\* bearer token and req.user was set from it; a request without a 'Bearer '
\* header, or with a token the verifier rejects, is answered 401 {error} and
\* no later stage ever runs for it.
C3_AuthGate ==
    /\ (fn = "" /\ (pc \in {"validation", "handler", "awaitingGen"} \/ ~NoLaterStageRan))
          => /\ StartsWithBearer(req.authorization)
             /\ verdict = "accepted"
             /\ user = UserOf(DecodedToken(IdToken(req.authorization)))
    /\ (fn = "" /\ Unauthenticated)
          => /\ NoLaterStageRan
             /\ pc \in {"requireAuth", "verifying", "done"}
             /\ pc = "done" => /\ Len(responses) = 1
                               /\ responses[1].status = 401
                               /\ HasKey(responses[1].body, "error")

\* C3 witness: a token the verifier rejected; the request ended with the one
\* 401 response and only requireAuth ran
C3_Witness ==
    /\ pc = "done"
    /\ StartsWithBearer(req.authorization)
    /\ IdToken(req.authorization) # <<>>
    /\ verdict = "rejected"
    /\ responses = <<ErrorResponse(401, "Invalid token")>>
    /\ ran = {"requireAuth"}

\* C4: an authenticated, schema-valid request for which the LLM answers with
\* text holding a well-formed JSON object with a recommendations array is
\* answered 200 {success: true, recommendations, user}, recommendations
\* being the parsed object and user the authenticated identity.
C4_SuccessIsRelayed ==
    (pc = "done" /\ verdict = "accepted" /\ ~SchemaReportsError
        /\ llm.plan = GoodCompletion)
        => responses = <<SuccessResponse(Obj(JsonMembers.recommendationsArray), user)>>

(***************************************************************************)
(* A call of assessImageQuality on a metadata record.                      *)
(***************************************************************************)
QualityFileSizes == {1024, 50000, 99999, 100000, 2000000, 5000000, 5000001, 10485760}
QualityWidths == {200, 299, 300, 799, 800, 1000}
QualityHeights == {200, 299, 300, 599, 600, 800}
QualityFormats == {"JPEG", "PNG", "WebP", "GIF", "UNKNOWN"}

QualityDimensions ==
    {NoDimensions}
    \cup { [width |-> w, height |-> h, aspectRatio |-> "1.00", estimated |-> TRUE] :
            w \in QualityWidths, h \in QualityHeights }

QualityInputs ==
    [fileSize : QualityFileSizes, dimensions : QualityDimensions, format : QualityFormats]

InitQuality ==
    /\ fn = "assessImageQuality"
    /\ arg \in QualityInputs
    /\ ret = NoRet
    /\ done = FALSE
    /\ FmtIdle
    /\ HttpIdle

CallAssessImageQuality ==
    /\ fn = "assessImageQuality"
    /\ ~done
    /\ ret' = assessImageQuality(arg)
    /\ done' = TRUE
    /\ UNCHANGED <<fn, arg>>
    /\ UNCHANGED notPure

NextQuality == CallAssessImageQuality

SpecQuality == InitQuality /\ [][NextQuality]_vars

\* the three terms of the raw score, as the contract states them
SizeTermOf(m) ==
    IF 100000 <= m.fileSize /\ m.fileSize <= 5000000 THEN 20
    ELSE IF m.fileSize < 100000 THEN -10 ELSE -5
ResolutionTermOf(m) ==
    IF m.dimensions = NoDimensions THEN 0
    ELSE IF m.dimensions.width >= 800 /\ m.dimensions.height >= 600 THEN 25
    ELSE IF m.dimensions.width < 300 \/ m.dimensions.height < 300 THEN -15
    ELSE 15
FormatTermOf(m) ==
    IF m.format \in {"JPEG", "PNG"} THEN 10 ELSE IF m.format = "WebP" THEN 5 ELSE -10
RawOf(m) == SizeTermOf(m) + ResolutionTermOf(m) + FormatTermOf(m)
PenaltiesOf(m) ==
    (IF SizeTermOf(m) < 0 THEN 1 ELSE 0) + (IF ResolutionTermOf(m) < 0 THEN 1 ELSE 0)
        + (IF FormatTermOf(m) < 0 THEN 1 ELSE 0)

QualityCallDone == fn = "assessImageQuality" /\ done

ExampleGood ==
    [fileSize |-> 2000000,
     dimensions |-> [width |-> 1000, height |-> 800, aspectRatio |-> "1.00",
                     estimated |-> TRUE],
     format |-> "JPEG"]
ExamplePoor ==
    [fileSize |-> 50000,
     dimensions |-> [width |-> 200, height |-> 200, aspectRatio |-> "1.00",
                     estimated |-> TRUE],
     format |-> "UNKNOWN"]

\* C11: assessImageQuality reports score = min(100, max(0, raw + 50)) and
\* suitable = (raw >= 30 and fewer than 3 issues), raw being the sum of the
\* size, resolution and format terms, with exactly one issue per penalty;
\* 2,000,000 bytes of 1000x800 JPEG give score 100 and suitable, 50,000 bytes
\* of 200x200 UNKNOWN give score 15 and not suitable.
C11_QualityScore ==
    QualityCallDone =>
        /\ ret.score = Min2(100, Max2(0, RawOf(arg) + 50))
        /\ Len(ret.issues) = PenaltiesOf(arg)
        /\ ret.suitable = (RawOf(arg) >= 30 /\ Len(ret.issues) < 3)
        /\ arg = ExampleGood => (RawOf(arg) = 55 /\ ret.score = 100 /\ ret.suitable)
        /\ arg = ExamplePoor => (RawOf(arg) = -35 /\ ret.score = 15 /\ ~ret.suitable)

\* C11 witness: the poor example has been assessed: three issues, score 15
C11_Witness ==
    /\ QualityCallDone
    /\ arg = ExamplePoor
    /\ ret.score = 15
    /\ Len(ret.issues) = 3
    /\ ~ret.suitable

(***************************************************************************)
(* The summary of formatPhotosForAI.                                       *)
(***************************************************************************)
CountWhere(list, Test(_)) == Cardinality({k \in 1..Len(list) : Test(list[k])})
SuitablePhoto(p) == p.quality.suitable
SuitableAndGoodPhoto(p) == p.quality.suitable /\ p.quality.score >= 60
ScoreTotal(list) ==
    LET Sum[k \in 0..Len(list)] == IF k = 0 THEN 0 ELSE Sum[k - 1] + list[k].quality.score
    IN  Sum[Len(list)]

\* m is the mean total / n rounded to the nearest integer (a half rounds up)
IsRoundedMean(m, total, n) == 2 * m * n - n <= 2 * total /\ 2 * total < 2 * m * n + n

FormatReturned == FormatValidInput /\ done

\* C12: the summary of formatPhotosForAI on a non-empty list agrees with the
\* two lists and is computed from the processed photos only: totalPhotos is
\* the input length, processedPhotos = |photos|, failedPhotos =
\* |processingErrors|, their sum is totalPhotos, aiCompatiblePhotos counts the
\* suitable photos, averageQuality is their rounded mean score (0 when none),
\* recommendedForAnalysis counts the suitable photos of score >= 60, and
\* readyForAI holds iff recommendedForAnalysis >= 1; three photos of which
\* one fails its probe give processedPhotos 2 and failedPhotos 1.
C12_SummaryConsistent ==
    FormatReturned =>
        LET sm == ret.summary IN
        /\ sm.totalPhotos = Len(arg.v)
        /\ sm.processedPhotos = Len(ret.photos)
        /\ sm.failedPhotos = Len(ReturnedErrors)
        /\ sm.processedPhotos + sm.failedPhotos = sm.totalPhotos
        /\ sm.processedPhotos = Len(outcomes) - Cardinality(FailedProbes)
        /\ sm.aiCompatiblePhotos = CountWhere(ret.photos, SuitablePhoto)
        /\ IF Len(ret.photos) = 0
           THEN sm.averageQuality = 0
           ELSE IsRoundedMean(sm.averageQuality, ScoreTotal(ret.photos), Len(ret.photos))
        /\ sm.recommendedForAnalysis = CountWhere(ret.photos, SuitableAndGoodPhoto)
        /\ ret.readyForAI = (sm.recommendedForAnalysis >= 1)
        /\ (Len(arg.v) = 3 /\ Cardinality(FailedProbes) = 1)
              => (sm.processedPhotos = 2 /\ sm.failedPhotos = 1)

\* C12 witness: three photos, the second fails its probe; the two processed
\* photos have different scores whose mean is no integer
C12_Witness ==
    /\ FormatReturned
    /\ Len(arg.v) = 3
    /\ FailedProbes = {2}
    /\ ret.summary.processedPhotos = 2
    /\ ret.summary.failedPhotos = 1
    /\ ScoreTotal(ret.photos) % 2 = 1
    /\ ret.summary.aiCompatiblePhotos = 1

(***************************************************************************)
(* A call of processQuestionnaireAnswers, and a second call on its result. *)
(***************************************************************************)
\* the digits of 10^k
PowerOfTenDigits(k) == <<"1">> \o [i \in 1..k |-> "0"]

AbsentAnswer == [t |-> "absent", v |-> 0]

HydrationValues ==
    {AbsentAnswer, Null, Num(5), Dec(75), Str(<<"7">>), Str(<<"7", ".", "9">>),
     Str(<<" ", "1", "2", "a", "b">>), Str(<<"a", "b">>), Str(<<>>),
     Arr(<<Num(3)>>), Str(PowerOfTenDigits(20)), Str(PowerOfTenDigits(21))}
SunExposureValues ==
    {AbsentAnswer, Null, Undefined, Num(3), Str(<<"H", "I", "g", "h">>),
     Str(<<"l", "o", "w">>), Obj(<<>>), Arr(<<Str(<<"A">>), Str(<<"B">>)>>)}
SleepHoursValues ==
    {AbsentAnswer, Null, Num(8), Dec(65), Str(<<"7", ".", "5">>), Str(<<"8">>),
     Str(<<"l", "a", "t", "e">>), Str(PowerOfTenDigits(21)),
     Str(<<"1", "e", "+", "2", "1">>)}
StressLevelValues == {AbsentAnswer, Null, NaN, Str(<<"3">>), Str(<<"-", "2">>)}
MoodValues == {AbsentAnswer, Str(<<"o", "k">>)}

\* the object with the keys whose value is not absent
AnswersObject(h, su, sl, st, mood) ==
    LET all == [hydration |-> h, sunExposure |-> su, sleepHours |-> sl,
                stressLevel |-> st, mood |-> mood]
        keys == {k \in DOMAIN all : all[k] # AbsentAnswer}
    IN  Obj([k \in keys |-> all[k]])

AnswerInputs ==
    { AnswersObject(h, su, sl, st, mood) :
        h \in HydrationValues, su \in SunExposureValues, sl \in SleepHoursValues,
        st \in StressLevelValues, mood \in MoodValues }
    \cup {Undefined, Null, Str(<<"a", "b">>), Num(5), Arr(<<>>), Arr(<<Str(<<"7">>)>>)}

InitAnswers ==
    /\ fn = "processQuestionnaireAnswers"
    /\ arg \in AnswerInputs
    /\ ret = NoRet
    /\ done = FALSE
    /\ FmtIdle
    /\ HttpIdle

CallProcessQuestionnaireAnswers ==
    /\ fn = "processQuestionnaireAnswers"
    /\ ~done
    /\ ret' = processQuestionnaireAnswers(arg)
    /\ done' = TRUE
    /\ UNCHANGED <<fn, arg>>
    /\ UNCHANGED notPure

\* the result of the call is normalised once more
CallAgainOnResult ==
    /\ fn = "processQuestionnaireAnswers"
    /\ done
    /\ ~ret.threw
    /\ fn' = "processQuestionnaireAnswers twice"
    /\ ret' = [threw |-> FALSE, value |-> ret.value,
               again |-> processQuestionnaireAnswers(ret.value)]
    /\ UNCHANGED <<arg, done>>
    /\ UNCHANGED notPure

NextAnswers == CallProcessQuestionnaireAnswers \/ CallAgainOnResult

SpecAnswers == InitAnswers /\ [][NextAnswers]_vars

AnswersCallDone == fn = "processQuestionnaireAnswers" /\ done
ObjectInput == arg.t = "object"
RecognizedKeys == {"hydration", "sunExposure", "sleepHours", "stressLevel"}

\* the value can be coerced: to lowercase text for sunExposure, else to a
\* number that parseInt (parseFloat for sleepHours) reads off its text
Coercible(key, value) ==
    CASE key = "sunExposure" -> value.t \notin {"null", "undefined"}
      [] key = "sleepHours" -> JsParseFloat(value).t # "nan"
      [] OTHER -> JsParseInt(value).t # "nan"

ExpectedKeys(answers) ==
    {k \in RecognizedKeys \cap DOMAIN answers.v : Coercible(k, answers.v[k])}

OnlyCoercedKeys ==
    /\ ~ret.threw
    /\ ret.value.t = "object"
    /\ DOMAIN ret.value.v = ExpectedKeys(arg)
    /\ \A k \in DOMAIN ret.value.v : ret.value.v[k].t \notin {"null", "undefined", "nan"}

\* C13: for every object input the result's keys are exactly the recognised
\* keys that were present and coerced successfully; a value that cannot be
\* coerced, a null for any of the four keys included, only drops its key and
\* raises no error; no output value is null, undefined or not-a-number.
C13_OnlyCoercedKeys == (AnswersCallDone /\ ObjectInput) => OnlyCoercedKeys

\* C13, without the null sunExposure: holds
C13_ExceptNullSunExposure ==
    (AnswersCallDone /\ ObjectInput)
        => IF HasKey(arg, "sunExposure") /\ arg.v["sunExposure"].t \in {"null", "undefined"}
           THEN ret.threw
           ELSE OnlyCoercedKeys

NormalisedTwice == fn = "processQuestionnaireAnswers twice" /\ ObjectInput

SameResultAgain == ~ret.again.threw /\ ret.again.value = ret.value

\* C14: answer normalisation is idempotent: for every object input a,
\* processQuestionnaireAnswers(processQuestionnaireAnswers(a)) has the same
\* keys and the same values as processQuestionnaireAnswers(a).
C14_Idempotent == NormalisedTwice => SameResultAgain

\* an integer answer that Number.prototype.toString writes with an exponent
WritesExponent(key) ==
    /\ HasKey(ret.value, key)
    /\ ret.value.v[key].t = "pow10"
    /\ ret.value.v[key].v >= 21

\* C14, for integer answers below 10^21: holds
C14_BelowExponentNotation ==
    NormalisedTwice =>
        IF WritesExponent("hydration") \/ WritesExponent("stressLevel")
        THEN ~SameResultAgain
        ELSE SameResultAgain

(***************************************************************************)
(* The failures of the LLM collaborator, as generateRecommendations        *)
(* surfaces them.                                                          *)
(***************************************************************************)
\* what kind of failure an answer of the LLM API is
FailureKind(plan) ==
    CASE plan.kind = "error" /\ plan.status = 429 -> "rateLimit"
      [] plan.kind = "error" /\ plan.status # 429 /\ plan.code = "ETIMEDOUT" -> "timeout"
      [] plan.kind = "error" /\ plan.status # 429 /\ plan.code # "ETIMEDOUT" -> "generic"
      [] plan.kind = "ok" /\ plan.choices = <<>> -> "noChoice"
      [] plan.kind = "ok" /\ plan.choices # <<>> /\ plan # GoodCompletion -> "malformed"
      [] OTHER -> "none"

\* the code a failure of the kind is surfaced under
SurfacedCode(plan) == GenSettle(plan).error.code
GenericCode == SurfacedCode(LlmError(500, "NONE"))
RateLimitCode == SurfacedCode(LlmError(429, "NONE"))
TimeoutCode == SurfacedCode(LlmError(0, "ETIMEDOUT"))

DirectGenDone == fn = "generateRecommendations" /\ done /\ llm.calls >= 1

FailureIsThrownOnce ==
    FailureKind(llm.plan) # "none" => (ret.state = "rejected" /\ llm.calls = 1)

\* C15: a rate-limit response, a timeout and a malformed response are
\* surfaced under three pairwise different codes, none of them the code of a
\* generic upstream failure; in every failure case generateRecommendations
\* throws instead of returning a value, and the LLM call is not repeated.
C15_DistinctCodes ==
    DirectGenDone =>
        /\ FailureIsThrownOnce
        /\ FailureKind(llm.plan) = "rateLimit"
              => ret.error.code \notin {GenericCode, TimeoutCode}
        /\ FailureKind(llm.plan) = "timeout"
              => ret.error.code \notin {GenericCode, RateLimitCode}
        /\ FailureKind(llm.plan) = "malformed"
              => ret.error.code \notin {GenericCode, RateLimitCode, TimeoutCode}

\* C15, without the code of a malformed response: holds
C15_ExceptMalformedCode ==
    DirectGenDone =>
        /\ FailureIsThrownOnce
        /\ FailureKind(llm.plan) = "rateLimit"
              => ret.error.code \notin {GenericCode, TimeoutCode}
        /\ FailureKind(llm.plan) = "timeout"
              => ret.error.code \notin {GenericCode, RateLimitCode}
        /\ FailureKind(llm.plan) = "malformed" => ret.error.code = GenericCode

(***************************************************************************)
(* One terminal outcome per request.                                       *)
(***************************************************************************)
\* the event loop runs every continuation that is ready; the identity
\* verifier and the LLM API each settle (the latter by its 15 s timeout at
\* the latest)
LiveSpec == Spec /\ WF_vars(Next)

HttpRequest == fn = "" /\ pc # "idle"

IsTerminalOutcome(response) ==
    \/ /\ response.status = 200
       /\ Get(response.body, "success") = Bool(TRUE)
    \/ /\ response.status = 401
       /\ HasKey(response.body, "error")
    \/ response = ErrorResponse(400, "INVALID_REQUEST")
    \/ response = ErrorResponse(500, "INTERNAL_ERROR")

AtMostOneResponse ==
    HttpRequest =>
        /\ Len(responses) <= 1
        /\ Len(responses) = 1 <=> pc = "done"
        /\ pc = "done" => IsTerminalOutcome(responses[1])

\* C16: every request to POST /apirecommendations gets exactly one terminal
\* outcome: at most one response is ever sent and, once the verifier and the
\* LLM call have settled, exactly one has been sent, which is the 200
\* payload or a single 401, 400 INVALID_REQUEST or 500 INTERNAL_ERROR; an
\* exception in the handler leaves the request neither unanswered nor
\* answered twice.
C16_OneTerminalOutcome ==
    /\ [] AtMostOneResponse
    /\ (fn = "" /\ pc = "requireAuth") ~> (pc = "done" /\ Len(responses) = 1)

\* C16 witness: the answer normaliser threw inside the handler; the request
\* ended with the one 500 response
C16_Witness ==
    /\ HttpRequest
    /\ pc = "done"
    /\ verdict = "accepted"
    /\ processQuestionnaireAnswers(Get(req.body, "questionnaireAnswers")).threw
    /\ "processQuestionnaireAnswers" \in ran
    /\ responses = <<ErrorResponse(500, "INTERNAL_ERROR")>>

(***************************************************************************)
(* The range check of validateProfileData.                                 *)
(***************************************************************************)
\* the entries of an error list that are about a field
ErrorsAbout(errors, key) == SelectSeq(errors, LAMBDA e : e.key = key)

IsNumeric(value) == value.t \in {"number", "decimal"}

\* C17: the bounds of age are inclusive: 13 and 120 raise no error for age,
\* 12 raises exactly 'must be at least 13' and 121 exactly 'must be at most
\* 120'; a numeric age is accepted iff 13 <= age <= 120.
C17_InclusiveBounds ==
    (ProfileCallDone /\ IsRecordInput(arg) /\ IsNumeric(Get(arg, "age"))) =>
        LET age == Get(arg, "age")
            about == ErrorsAbout(ret.errors, "age")
        IN  /\ (about = <<>>) <=> (130 <= Tenths(age) /\ Tenths(age) <= 1200)
            /\ age \in {Num(13), Num(120)} => about = <<>>
            /\ age = Num(12) => about = <<Err("min", "age", <<Num(13)>>)>>
            /\ age = Num(121) => about = <<Err("max", "age", <<Num(120)>>)>>

\* C17 witness: a record that is valid but for its age of 12, rejected with
\* the one error
C17_Witness ==
    /\ ProfileCallDone /\ IsRecordInput(arg)
    /\ Get(arg, "age") = Num(12)
    /\ ret = Invalid(<<Err("min", "age", <<Num(13)>>)>>)

(***************************************************************************)
(* Which checks of a field the type check leaves to run.                   *)
(***************************************************************************)
\* the number a comparison with a bound coerces the value to
ComparedAs(value) ==
    IF value.t = "string" THEN ParseInt(value.v) ELSE value

OutOfRange(key, value) ==
    LET f == FieldOf(key)
        n == ComparedAs(value)
    IN  /\ "min" \in DOMAIN f
        /\ n.t \in {"number", "decimal"}
        /\ (Tenths(n) < 10 * f.min \/ Tenths(n) > 10 * f.max)

RangeErrors(errors, key) == CountErrors(errors, "min", key) + CountErrors(errors, "max", key)

TypeErrors(errors, key) ==
    CountErrors(errors, "string", key) + CountErrors(errors, "number", key)
        + CountErrors(errors, "array", key)

\* C18: all checks of a present field run independently of each other's
\* outcome: the type check does not suppress the other checks, so a value of
\* the wrong type that is out of range raises the range error too.
C18_ChecksIndependent ==
    (ProfileCallDone /\ IsRecordInput(arg)) =>
        \A k \in FieldKeys :
            LET value == Get(arg, k) IN
            (~Absent(value) /\ OutOfRange(k, value)) => RangeErrors(ret.errors, k) >= 1

\* C18, amended: a type error suppresses the range check, the length check
\* and the check of the array's elements, never the 'must be one of' check:
\* no field raises a type error together with a range, length or element
\* error, and a string field with allowed values that raises a type error
\* raises 'must be one of' as well.
C18_TypeSuppressesRange ==
    (ProfileCallDone /\ IsRecordInput(arg)) =>
        \A k \in FieldKeys :
            TypeErrors(ret.errors, k) >= 1 =>
                /\ TypeErrors(ret.errors, k) = 1
                /\ RangeErrors(ret.errors, k) = 0
                /\ CountErrors(ret.errors, "minLength", k) = 0
                /\ CountErrors(ret.errors, "invalidValues", k) = 0
                /\ CountErrors(ret.errors, "oneOf", k)
                      = (IF FieldOf(k).type = "string" /\ "allowed" \in DOMAIN FieldOf(k)
                         THEN 1 ELSE 0)

\* C18 witness: an age of "5" raises the type error alone, and in the same
\* run a skinType of 5 raises its type error and 'must be one of'
C18_Witness ==
    /\ ProfileCallDone /\ IsRecordInput(arg)
    /\ Get(arg, "age") = Str(<<"5">>)
    /\ ErrorsAbout(ret.errors, "age") = <<Err("number", "age", <<>>)>>
    /\ Get(arg, "skinType") = Num(5)
    /\ CountErrors(ret.errors, "string", "skinType") = 1
    /\ CountErrors(ret.errors, "oneOf", "skinType") = 1

(***************************************************************************)
(* The quality assessment and the summary built on it: a call of           *)
(* assessImageQuality, or a call of formatPhotosForAI.                     *)
(***************************************************************************)
InitQualityOrFormat == InitQuality \/ InitFormat

NextQualityOrFormat == NextQuality \/ NextFormat

SpecQualityOrFormat == InitQualityOrFormat /\ [][NextQualityOrFormat]_vars

SuitableMeansHighScore(quality) ==
    /\ quality.suitable => quality.score >= 80
    /\ 15 <= quality.score /\ quality.score <= 100

\* C19: suitable implies a reported score of at least 80, and the reported
\* score is always between 15 and 100; so in every summary of
\* formatPhotosForAI recommendedForAnalysis equals aiCompatiblePhotos, and
\* readyForAI holds iff some processed photo is suitable.
C19_SuitableImpliesScore80 ==
    /\ QualityCallDone => SuitableMeansHighScore(ret)
    /\ FormatReturned =>
          /\ \A k \in 1..Len(ret.photos) : SuitableMeansHighScore(ret.photos[k].quality)
          /\ ret.summary.recommendedForAnalysis = ret.summary.aiCompatiblePhotos
          /\ ret.readyForAI <=> (\E k \in 1..Len(ret.photos) : ret.photos[k].quality.suitable)

\* C19 witness: a summary over a suitable photo of score 80 and a photo that
\* is not suitable: one compatible, one recommended, ready
C19_Witness ==
    /\ FormatReturned
    /\ Len(ret.photos) = 2
    /\ ret.photos[1].quality.suitable /\ ret.photos[1].quality.score = 80
    /\ ~ret.photos[2].quality.suitable
    /\ ret.summary.aiCompatiblePhotos = 1
    /\ ret.summary.recommendedForAnalysis = 1
    /\ ret.readyForAI

====
